---- MODULE Spec2Model ----
(***************************************************************************)
(* Model of the poker client runtime: the betting state machine of         *)
(* states.rs and the concurrent receive / dispatch / respond loop of       *)
(* runner.rs running on the worker pool of thread_pool.rs.                 *)
(***************************************************************************)
EXTENDS Integers, Sequences, FiniteSets, TLC

VARIABLES
    round_state,     \* Arc<RwLock<Option<RoundState>>>
    game_state,      \* Arc<RwLock<GameState>>
    terminal_state,  \* Arc<RwLock<Option<TerminalState>>>
    player_index,    \* Arc<AtomicUsize>
    last,            \* history: the event the dispatcher applied last
    r_phase,         \* SpecRound: where the engine is in the round
    r_raises,        \* SpecRound: Raise events applied in this round
    pure,            \* SpecPure: the results computed for round_state
    pool_size,       \* Runner::thread_count, the number of workers
    script,          \* the lines the engine sends in this session
    eng_sent,        \* number of lines the engine has sent
    inbound,         \* lines in flight on the TCP stream, engine to client
    outbound,        \* lines the client has written to the stream
    read_queue,      \* Socket::read_queue
    round_sent,      \* Socket::round_sent
    socket,          \* Mutex<Socket>: holder
    bot_lock,        \* Mutex<Box<dyn PokerBot>>: holder
    round_lock,      \* RwLock of round_state: writer and readers
    game_lock,       \* RwLock of game_state: writer and readers
    chan,            \* the channel action_sender -> action_receiver
    jobs,            \* ThreadPool: mpsc channel of Message
    m_pc,            \* main thread: position in Runner::run
    m_clauses,       \* main thread: clauses drained and not yet processed
    state_change,    \* main thread: local state_change
    m_upto,          \* history: the last line whose tokens the main thread drained
    m_exit,          \* history: how Runner::run ended
    w_pc,            \* worker: position in its job
    w_job,           \* worker: the job it runs
    applied,         \* history: the tokens applied to the state, in order
    nonempty_read,   \* history: number of non-empty lines read by sync
    bot_failed,      \* history: a bot callback has returned an error
    resp             \* history: what the last respond job read and did

cells == <<round_state, game_state, terminal_state, player_index>>
harness == <<r_phase, r_raises, pure>>
runner == <<pool_size, script, eng_sent, inbound, outbound, read_queue, round_sent,
            socket, bot_lock, round_lock, game_lock, chan, jobs, m_pc, m_clauses,
            state_change, m_upto, m_exit, w_pc, w_job, applied, nonempty_read,
            bot_failed, resp>>
vars == <<round_state, game_state, terminal_state, player_index, last,
          r_phase, r_raises, pure, pool_size, script, eng_sent, inbound, outbound,
          read_queue, round_sent, socket, bot_lock, round_lock, game_lock, chan,
          jobs, m_pc, m_clauses, state_change, m_upto, m_exit, w_pc, w_job,
          applied, nonempty_read, bot_failed, resp>>

\* ------------------------------------------------------------------------
\* Program constants (states.rs)
\* ------------------------------------------------------------------------
STARTING_STACK == 200
BIG_BLIND == 2
SMALL_BLIND == 1

\* ------------------------------------------------------------------------
\* Bounds of the model
\* ------------------------------------------------------------------------
\* SpecPure: pips and stacks of the arbitrary round states range over 0..MaxChip
MaxChip == 4
\* SpecRound: number of Raise events applied per round
MaxRaises == 2
\* SpecRound: depth to which the harness keeps the write-only previous chain
PrevDepth == 1
\* SpecEvents: number of events applied
MaxEvents == 5
\* Spec, SpecLive: the pool has 1..MaxWorkers workers
MaxWorkers == 2
\* Spec, SpecLive: the engine sends at most MaxLines lines
MaxLines == 2
\* Spec, SpecLive: the main loop starts a tick only while fewer than MaxJobs
\* messages wait in the pool's channel
MaxJobs == 2

Seats == {0, 1}

Pair(a, b) == [i \in Seats |-> IF i = 0 THEN a ELSE b]

min(a, b) == IF a <= b THEN a ELSE b
max(a, b) == IF a >= b THEN a ELSE b

\* Option::None of RoundState / TerminalState / CardHand
None == [tag |-> "None"]

\* CardHand (cards.rs): the two cards of a hole hand
CardHand(cards) == [tag |-> "Hand", c0 |-> cards[1], c1 |-> cards[2]]

\* Action (actions.rs): Fold, Call, Check, Raise(u32)
Fold == [kind |-> "Fold", amt |-> 0]
Call == [kind |-> "Call", amt |-> 0]
Check == [kind |-> "Check", amt |-> 0]
Raise(n) == [kind |-> "Raise", amt |-> n]

\* RoundState (states.rs)
RoundState(button, street, pips, stacks, hands, deck, previous) ==
    [tag |-> "Round", button |-> button, street |-> street, pips |-> pips,
     stacks |-> stacks, hands |-> hands, deck |-> deck, previous |-> previous]

\* TerminalState (states.rs)
TerminalState(deltas, previous) ==
    [tag |-> "Terminal", deltas |-> deltas, previous |-> previous]

\* GameState (states.rs)
GameState(bankroll, game_clock, round_num) ==
    [bankroll |-> bankroll, game_clock |-> game_clock, round_num |-> round_num]

\* ------------------------------------------------------------------------
\* states.rs: RoundState methods.  pips and stacks are u32; every subtraction
\* below is evaluated only where its left operand is the larger one (see
\* SubtractionsInRange), so no wrap-around value is ever produced.
\* ------------------------------------------------------------------------
active_of(rs) == rs.button % 2

continue_cost(rs) == rs.pips[1 - active_of(rs)] - rs.pips[active_of(rs)]

showdown(rs) == TerminalState(Pair(0, 0), rs)

\* legal_actions with the opponent's empty stack forgotten when cc > 0
legal_actions_own_stack_only(rs) ==
    LET active == active_of(rs)
        cc == continue_cost(rs)
    IN  IF cc = 0
        THEN IF rs.stacks[0] = 0 \/ rs.stacks[1] = 0
             THEN {"CHECK"}
             ELSE {"CHECK", "RAISE"}
        ELSE IF cc = rs.stacks[active]
             THEN {"FOLD", "CALL"}
             ELSE {"FOLD", "CALL", "RAISE"}

legal_actions(rs) ==
    LET active == active_of(rs)
        cc == continue_cost(rs)
    IN  IF cc = 0
        THEN IF rs.stacks[0] = 0 \/ rs.stacks[1] = 0
             THEN {"CHECK"}
             ELSE {"CHECK", "RAISE"}
        ELSE IF cc = rs.stacks[active] \/ rs.stacks[1 - active] = 0
             THEN {"FOLD", "CALL"}
             ELSE {"FOLD", "CALL", "RAISE"}

\* raise_bounds with the minimum contribution not capped by the maximum
raise_bounds_uncapped(rs) ==
    LET active == active_of(rs)
        cc == continue_cost(rs)
        max_contrib == min(rs.stacks[active], rs.stacks[1 - active] + cc)
        min_contrib == cc + max(cc, BIG_BLIND)
    IN  <<rs.pips[active] + min_contrib, rs.pips[active] + max_contrib>>

\* raise_bounds whose maximum contribution is the own stack plus cc
raise_bounds_past_stack(rs) ==
    LET active == active_of(rs)
        cc == continue_cost(rs)
        max_contrib == rs.stacks[active] + cc
        min_contrib == min(max_contrib, cc + max(cc, BIG_BLIND))
    IN  <<rs.pips[active] + min_contrib, rs.pips[active] + max_contrib>>

raise_bounds(rs) ==
    LET active == active_of(rs)
        cc == continue_cost(rs)
        max_contrib == min(rs.stacks[active], rs.stacks[1 - active] + cc)
        min_contrib == min(max_contrib, cc + max(cc, BIG_BLIND))
    IN  <<rs.pips[active] + min_contrib, rs.pips[active] + max_contrib>>

\* proceed_street that counts the street up instead of reading the board
proceed_street_counted(rs) ==
    IF rs.street = 5
    THEN showdown(rs)
    ELSE RoundState(1, IF rs.street = 0 THEN 3 ELSE rs.street + 1,
                    Pair(0, 0), rs.stacks, rs.hands, rs.deck, rs)

proceed_street(rs) ==
    IF rs.street = 5
    THEN showdown(rs)
    ELSE RoundState(1, Len(rs.deck), Pair(0, 0), rs.stacks, rs.hands, rs.deck, rs)

\* delta of a fold: stacks[0].saturating_sub(STARTING_STACK) for seat 0,
\* STARTING_STACK - stacks[1] for seat 1
fold_delta(rs) ==
    IF active_of(rs) = 0
    THEN max(rs.stacks[0] - STARTING_STACK, 0)
    ELSE STARTING_STACK - rs.stacks[1]

proceed_fold(rs) ==
    TerminalState(Pair(fold_delta(rs), -fold_delta(rs)), rs)

\* proceed(Call) without the special case of the small blind's first call
proceed_call_street_always(rs) ==
    LET active == active_of(rs)
        contrib == rs.pips[1 - active] - rs.pips[active]
        state == RoundState(rs.button + 1, rs.street,
                            [rs.pips EXCEPT ![active] = @ + contrib],
                            [rs.stacks EXCEPT ![active] = @ - contrib],
                            rs.hands, rs.deck, rs)
    IN  proceed_street(state)

proceed_call(rs) ==
    IF rs.button = 0
    THEN RoundState(1, 0, Pair(BIG_BLIND, BIG_BLIND),
                    Pair(STARTING_STACK - BIG_BLIND, STARTING_STACK - BIG_BLIND),
                    rs.hands, rs.deck, rs)
    ELSE LET active == active_of(rs)
             contrib == rs.pips[1 - active] - rs.pips[active]
             state == RoundState(rs.button + 1, rs.street,
                                 [rs.pips EXCEPT ![active] = @ + contrib],
                                 [rs.stacks EXCEPT ![active] = @ - contrib],
                                 rs.hands, rs.deck, rs)
         IN  proceed_street(state)

\* proceed(Check) that takes both players to have acted only when button > 1
proceed_check_button_only(rs) ==
    IF rs.button > 1
    THEN proceed_street(rs)
    ELSE RoundState(rs.button + 1, rs.street, rs.pips, rs.stacks,
                    rs.hands, rs.deck, rs)

proceed_check(rs) ==
    IF (rs.street = 0 /\ rs.button > 0) \/ rs.button > 1
    THEN proceed_street(rs)
    ELSE RoundState(rs.button + 1, rs.street, rs.pips, rs.stacks,
                    rs.hands, rs.deck, rs)

\* proceed(Raise) with the stack not debited
proceed_raise_no_debit(rs, amt) ==
    LET active == active_of(rs)
        contrib == amt - rs.pips[active]
    IN  RoundState(rs.button + 1, rs.street,
                   [rs.pips EXCEPT ![active] = @ + contrib],
                   rs.stacks, rs.hands, rs.deck, rs)

proceed_raise(rs, amt) ==
    LET active == active_of(rs)
        contrib == amt - rs.pips[active]
    IN  RoundState(rs.button + 1, rs.street,
                   [rs.pips EXCEPT ![active] = @ + contrib],
                   [rs.stacks EXCEPT ![active] = @ - contrib],
                   rs.hands, rs.deck, rs)

proceed(rs, action) ==
    CASE action.kind = "Fold" -> proceed_fold(rs)
      [] action.kind = "Call" -> proceed_call(rs)
      [] action.kind = "Check" -> proceed_check(rs)
      [] action.kind = "Raise" -> proceed_raise(rs, action.amt)

\* The u32 subtractions proceed(rs, action) evaluates stay in range
SubtractionsInRange(rs, action) ==
    LET active == active_of(rs)
    IN  CASE action.kind = "Fold" -> active = 1 => rs.stacks[1] <= STARTING_STACK
          [] action.kind = "Call" ->
                rs.button # 0 =>
                    /\ rs.pips[active] <= rs.pips[1 - active]
                    /\ rs.pips[1 - active] - rs.pips[active] <= rs.stacks[active]
          [] action.kind = "Check" -> TRUE
          [] action.kind = "Raise" ->
                /\ rs.pips[active] <= action.amt
                /\ action.amt - rs.pips[active] <= rs.stacks[active]

\* ------------------------------------------------------------------------
\* runner.rs: legalisation of the agent's answer in the respond job
\* ------------------------------------------------------------------------
check_or(legal, other) == IF "CHECK" \in legal THEN Check ELSE other

\* legalise with the raise amount not compared to raise_bounds
legalise_any_amount(rs, bot_action) ==
    LET legal == legal_actions(rs)
    IN  CASE bot_action.kind = "Raise" ->
                IF "RAISE" \in legal
                THEN Raise(bot_action.amt)
                ELSE check_or(legal, Call)
          [] bot_action.kind = "Check" -> check_or(legal, Fold)
          [] bot_action.kind = "Call" -> check_or(legal, Call)
          [] bot_action.kind = "Fold" -> check_or(legal, Fold)

\* legalise with a raise at either end of raise_bounds kept as well
legalise_bounds_inclusive(rs, bot_action) ==
    LET legal == legal_actions(rs)
    IN  CASE bot_action.kind = "Raise" ->
                IF "RAISE" \in legal
                   /\ bot_action.amt >= raise_bounds(rs)[1]
                   /\ bot_action.amt <= raise_bounds(rs)[2]
                THEN Raise(bot_action.amt)
                ELSE check_or(legal, Call)
          [] bot_action.kind = "Check" -> check_or(legal, Fold)
          [] bot_action.kind = "Call" -> check_or(legal, Call)
          [] bot_action.kind = "Fold" -> check_or(legal, Fold)

legalise(rs, bot_action) ==
    LET legal == legal_actions(rs)
    IN  CASE bot_action.kind = "Raise" ->
                IF "RAISE" \in legal
                THEN IF bot_action.amt > raise_bounds(rs)[1]
                        /\ bot_action.amt < raise_bounds(rs)[2]
                     THEN Raise(bot_action.amt)
                     ELSE check_or(legal, Call)
                ELSE check_or(legal, Call)
          [] bot_action.kind = "Check" -> check_or(legal, Fold)
          [] bot_action.kind = "Call" -> check_or(legal, Call)
          [] bot_action.kind = "Fold" -> check_or(legal, Fold)

\* ------------------------------------------------------------------------
\* runner.rs: events.  A token of an inbound line (ServerAction) and an entry
\* of the ordered event queue (PreservedOrdering) are records
\*   [tag, n, cards]: tag is the wire tag, n the numeric argument (clock,
\*   seat, raise amount, delta), cards the card list (hand or board).
\* ------------------------------------------------------------------------
Tok(tag, n, cards) == [tag |-> tag, n |-> n, cards |-> cards]

\* the Action carried by the tokens F, C, K, R (runner.rs main loop)
action_of(tok) ==
    CASE tok.tag = "F" -> Fold
      [] tok.tag = "C" -> Call
      [] tok.tag = "K" -> Check
      [] tok.tag = "R" -> Raise(tok.n)

IsActionTok(tok) == tok.tag \in {"F", "C", "K", "R"}

\* No bot callback was made
NoCall == [cb |-> "none"]

\* ------------------------------------------------------------------------
\* runner.rs: the dispatch job's application of one queued event to
\* (round, game, terminal, player_index).  bot_ok is the result of the bot
\* callback the event makes, if it makes one.  The result carries the new
\* cells, the outcome ("ok", "err": the job returns on a bot error, "panic")
\* and the callback made with its arguments.
\* ------------------------------------------------------------------------
DispatchResult(round, game, terminal, pidx, outcome, call) ==
    [round |-> round, game |-> game, terminal |-> terminal,
     player_index |-> pidx, outcome |-> outcome, call |-> call]

dispatch_action(round, game, terminal, pidx, tok) ==
    IF round = None
    THEN DispatchResult(round, game, terminal, pidx, "panic", NoCall)
    ELSE LET res == proceed(round, action_of(tok))
         IN  IF res.tag = "Round"
             THEN DispatchResult(res, game, terminal, pidx, "ok", NoCall)
             ELSE DispatchResult(round, game, res, pidx, "ok", NoCall)

\* the deltas of a Delta event with the client's own entry not overwritten
delta_deltas_no_own(pidx, delta) == Pair(-delta, -delta)

\* deltas = [-delta, -delta]; deltas[player_index] = delta
delta_deltas(pidx, delta) == [Pair(-delta, -delta) EXCEPT ![pidx] = delta]

\* a Delta that pays the bankroll before the callback and again after it
dispatch_delta_paid_twice(round, game, terminal, pidx, tok, bot_ok) ==
    IF terminal = None \/ pidx \notin Seats
    THEN DispatchResult(round, game, terminal, pidx, "panic", NoCall)
    ELSE LET term == TerminalState(delta_deltas(pidx, tok.n), terminal.previous)
             paid == [game EXCEPT !.bankroll = @ + tok.n]
             call == [cb |-> "round_over", game |-> paid, arg |-> term, seat |-> pidx]
         IN  IF ~bot_ok
             THEN DispatchResult(round, paid, terminal, pidx, "err", call)
             ELSE DispatchResult(None, [paid EXCEPT !.bankroll = @ + tok.n,
                                                    !.round_num = @ + 1],
                                 term, pidx, "ok", call)

\* Delta: the bankroll is paid, handle_round_over is called with the paid
\* game state and the terminal state of the deltas; on Ok the terminal is
\* stored, round_num incremented and the round cleared; on Err the job
\* returns with the bankroll paid
dispatch_delta(round, game, terminal, pidx, tok, bot_ok) ==
    IF terminal = None \/ pidx \notin Seats
    THEN DispatchResult(round, game, terminal, pidx, "panic", NoCall)
    ELSE LET term == TerminalState(delta_deltas(pidx, tok.n), terminal.previous)
             paid == [game EXCEPT !.bankroll = @ + tok.n]
             call == [cb |-> "round_over", game |-> paid, arg |-> term, seat |-> pidx]
         IN  IF ~bot_ok
             THEN DispatchResult(round, paid, terminal, pidx, "err", call)
             ELSE DispatchResult(None, [paid EXCEPT !.round_num = @ + 1],
                                 term, pidx, "ok", call)

\* a StartRound that deals the hand to seat 0 whatever the client's seat
start_round_first_seat(pidx, hand) ==
    RoundState(0, 0, Pair(SMALL_BLIND, BIG_BLIND),
               Pair(STARTING_STACK - SMALL_BLIND, STARTING_STACK - BIG_BLIND),
               Pair(CardHand(hand), None), <<>>, None)

start_round(pidx, hand) ==
    RoundState(0, 0, Pair(SMALL_BLIND, BIG_BLIND),
               Pair(STARTING_STACK - SMALL_BLIND, STARTING_STACK - BIG_BLIND),
               [Pair(None, None) EXCEPT ![pidx] = CardHand(hand)], <<>>, None)

dispatch_start_round(round, game, terminal, pidx, tok, bot_ok) ==
    IF pidx \notin Seats
    THEN DispatchResult(round, game, terminal, pidx, "panic", NoCall)
    ELSE LET new == start_round(pidx, tok.cards)
             call == [cb |-> "new_round", game |-> game, arg |-> new, seat |-> pidx]
         IN  IF ~bot_ok
             THEN DispatchResult(round, game, terminal, pidx, "err", call)
             ELSE DispatchResult(new, game, terminal, pidx, "ok", call)

\* a Reveal that is skipped when there is no round
dispatch_reveal_lenient(round, game, terminal, pidx, tok) ==
    IF round = None \/ pidx \notin Seats
    THEN DispatchResult(round, game, terminal, pidx, "ok", NoCall)
    ELSE LET revised == [round EXCEPT !.hands[1 - pidx] = CardHand(tok.cards)]
         IN  DispatchResult(round, game, TerminalState(Pair(0, 0), revised),
                            pidx, "ok", NoCall)

\* a Reveal that writes the revealed hand over the client's own
dispatch_reveal_own_seat(round, game, terminal, pidx, tok) ==
    IF round = None \/ pidx \notin Seats
    THEN DispatchResult(round, game, terminal, pidx, "panic", NoCall)
    ELSE LET revised == [round EXCEPT !.hands[pidx] = CardHand(tok.cards)]
         IN  DispatchResult(round, game, TerminalState(Pair(0, 0), revised),
                            pidx, "ok", NoCall)

dispatch_reveal(round, game, terminal, pidx, tok) ==
    IF round = None \/ pidx \notin Seats
    THEN DispatchResult(round, game, terminal, pidx, "panic", NoCall)
    ELSE LET revised == [round EXCEPT !.hands[1 - pidx] = CardHand(tok.cards)]
         IN  DispatchResult(round, game, TerminalState(Pair(0, 0), revised),
                            pidx, "ok", NoCall)

dispatch_update_deck(round, game, terminal, pidx, tok) ==
    IF round = None
    THEN DispatchResult(round, game, terminal, pidx, "panic", NoCall)
    ELSE DispatchResult([round EXCEPT !.street = Len(tok.cards), !.deck = tok.cards],
                        game, terminal, pidx, "ok", NoCall)

dispatch(round, game, terminal, pidx, tok, bot_ok) ==
    CASE IsActionTok(tok) -> dispatch_action(round, game, terminal, pidx, tok)
      [] tok.tag = "D" -> dispatch_delta(round, game, terminal, pidx, tok, bot_ok)
      [] tok.tag = "H" -> dispatch_start_round(round, game, terminal, pidx, tok, bot_ok)
      [] tok.tag = "O" -> dispatch_reveal(round, game, terminal, pidx, tok)
      [] tok.tag = "B" -> dispatch_update_deck(round, game, terminal, pidx, tok)
      [] tok.tag = "P" -> DispatchResult(round, game, terminal, tok.n, "ok", NoCall)

\* ------------------------------------------------------------------------
\* Initial values (runner.rs, Runner::run)
\* ------------------------------------------------------------------------
game_state_init == GameState(0, 0, 1)

NoLast == [outcome |-> "none"]
NoPure == [done |-> FALSE]

CellsInit ==
    /\ round_state = None
    /\ game_state = game_state_init
    /\ terminal_state = None
    /\ player_index = 0

\* the record kept of an applied event: the token, the cells before it, the
\* outcome and the callback made
Applied(tok, res) ==
    [outcome |-> res.outcome, tok |-> tok, call |-> res.call,
     pre_round |-> round_state, pre_game |-> game_state,
     pre_terminal |-> terminal_state, pre_index |-> player_index]

\* ------------------------------------------------------------------------
\* runner.rs, thread_pool.rs: threads, locks and jobs
\* ------------------------------------------------------------------------
\* thread ids: the main thread and the workers 1..pool_size
Main == 0
Workers == 1..pool_size

\* a Mutex is held by a thread, free or poisoned
Free == -1
Poisoned == -2

\* an RwLock: writer (a thread, Free or Poisoned) and the set of readers
RwFree == [w |-> Free, r |-> {}]
CanWrite(l) == l.w = Free /\ l.r = {}
CanRead(l) == l.w = Free

\* what a lock becomes when thread t returns from its job / panics in it
MutexReleased(l, t) == IF l = t THEN Free ELSE l
MutexPanicked(l, t) == IF l = t THEN Poisoned ELSE l
RwReleased(l, t) == [w |-> IF l.w = t THEN Free ELSE l.w, r |-> l.r \ {t}]
RwPanicked(l, t) == [w |-> IF l.w = t THEN Poisoned ELSE l.w, r |-> l.r \ {t}]

\* Message::NewJob with the line up to which the main thread had drained the
\* read queue when it submitted the job, and Message::Terminate
Job(kind, upto) == [kind |-> kind, upto |-> upto]
NoJob == Job("none", 0)

\* a token of line `line` at position `pos` of it
Stamped(tok, line, pos) == [tok |-> tok, line |-> line, pos |-> pos]

NoResp == [upto |-> 0]

\* the runner before Runner::run starts its loop (Socket::new, ThreadPool::new)
RunnerStart ==
    /\ eng_sent = 0
    /\ inbound = <<>>
    /\ outbound = <<>>
    /\ read_queue = <<>>
    /\ round_sent = FALSE
    /\ socket = Free
    /\ bot_lock = Free
    /\ round_lock = RwFree
    /\ game_lock = RwFree
    /\ chan = <<>>
    /\ jobs = <<>>
    /\ m_clauses = <<>>
    /\ state_change = FALSE
    /\ m_upto = 0
    /\ m_exit = "running"
    /\ w_pc = [w \in 1..pool_size |-> "idle"]
    /\ w_job = [w \in 1..pool_size |-> NoJob]
    /\ applied = <<>>
    /\ nonempty_read = 0
    /\ bot_failed = FALSE
    /\ resp = NoResp

\* the runner left out of the specifications of the pure functions
RunnerIdle ==
    /\ pool_size = 1
    /\ script = 1
    /\ m_pc = "off"
    /\ RunnerStart

\* ------------------------------------------------------------------------
\* SpecPure: legal_actions, raise_bounds and the legalisation evaluated on
\* arbitrary round states with a non-negative continue cost
\* ------------------------------------------------------------------------
PureRounds ==
    { RoundState(b, 0, Pair(p0, p1), Pair(s0, s1), Pair(None, None), <<>>, None) :
        b \in 0..3, p0 \in 0..MaxChip, p1 \in 0..MaxChip,
        s0 \in 0..MaxChip, s1 \in 0..MaxChip }

BotActions(maxAmt) == {Fold, Call, Check} \cup { Raise(n) : n \in 0..maxAmt }

PureInit ==
    /\ round_state \in { rs \in PureRounds : rs.pips[active_of(rs)] <= rs.pips[1 - active_of(rs)] }
    /\ game_state = game_state_init
    /\ terminal_state = None
    /\ player_index = 0
    /\ last = NoLast
    /\ r_phase = "idle"
    /\ r_raises = 0
    /\ pure = NoPure
    /\ RunnerIdle

\* the respond job's computation on round_state for one answer of the agent
PureRespond ==
    /\ ~pure.done
    /\ \E bot_action \in BotActions(2 * MaxChip + 1) :
          pure' = [done |-> TRUE, bot |-> bot_action,
                   legal |-> legal_actions(round_state),
                   bounds |-> raise_bounds(round_state),
                   wire |-> legalise(round_state, bot_action)]
    /\ UNCHANGED <<cells, last, r_phase, r_raises, runner>>

PureNext == PureRespond

SpecPure == PureInit /\ [][PureNext]_vars

\* ------------------------------------------------------------------------
\* The engine.  A session is one of the scripts below: lines of tokens as the
\* engine sends them (own actions are echoed to the client; after each line
\* either the client is to act or the round is over).
\* ------------------------------------------------------------------------
TokT(n) == Tok("T", n, <<>>)
TokP(i) == Tok("P", i, <<>>)
TokH == Tok("H", 0, <<1, 2>>)
TokF == Tok("F", 0, <<>>)
TokC == Tok("C", 0, <<>>)
TokK == Tok("K", 0, <<>>)
TokR(n) == Tok("R", n, <<>>)
TokB(cards) == Tok("B", 0, cards)
TokD(n) == Tok("D", n, <<>>)
TokQ == Tok("Q", 0, <<>>)

Scripts ==
    << \* the small blind folds at once; the client is the small blind next
       << <<TokT(30), TokP(1), TokH, TokF, TokD(2)>>,
          <<TokT(29), TokP(0), TokH>>,
          <<TokF, TokD(-1)>>,
          <<TokQ>> >>,
       \* the client is the small blind, calls, and is raised
       << <<TokT(30), TokP(0), TokH>>,
          <<TokC, TokR(6)>>,
          <<TokC, TokB(<<5, 6, 7>>), TokK>>,
          <<TokF, TokD(-6)>> >>,
       \* an empty line, then a round that ends with the clock at zero
       << <<>>,
          <<TokT(0), TokP(1), TokH, TokF, TokD(2)>>,
          <<TokQ>>,
          <<>> >>,
       \* one round, then the engine quits
       << <<TokT(30), TokP(1), TokH, TokF, TokD(2)>>,
          <<TokQ>>,
          <<>>,
          <<>> >>,
       \* two rounds in which the small blind folds at once
       << <<TokT(30), TokP(1), TokH, TokF, TokD(2)>>,
          <<TokT(29), TokP(1), TokH, TokF, TokD(-1)>>,
          <<TokQ>>,
          <<>> >> >>

\* a line holds a token of the given tag
has_tag(line, tag) == \E i \in 1..Len(line) : line[i].tag = tag

\* the replies the engine is owed for its first k lines: one for each line
\* that is not empty and does not tell the client to quit
expects(k) ==
    Cardinality({ i \in 1..k : /\ Scripts[script][i] # <<>>
                               /\ ~has_tag(Scripts[script][i], "Q") })

\* the engine writes its next line
EngineSend ==
    /\ eng_sent < MaxLines
    /\ eng_sent < Len(Scripts[script])
    /\ inbound' = Append(inbound, Scripts[script][eng_sent + 1])
    /\ eng_sent' = eng_sent + 1
    /\ UNCHANGED <<cells, last, harness, pool_size, script, outbound, read_queue,
                   round_sent, socket, bot_lock, round_lock, game_lock, chan, jobs,
                   m_pc, m_clauses, state_change, m_upto, m_exit, w_pc, w_job,
                   applied, nonempty_read, bot_failed, resp>>

\* the engine writes its next line once it has every reply it is owed
EngineLockstep ==
    /\ Len(outbound) >= expects(eng_sent)
    /\ EngineSend

\* what the agent's get_action returns: Ok(action) or Err
Answer(ok, act) == [ok |-> ok, act |-> act]
BotAnswers == { Answer(TRUE, Call), Answer(TRUE, Raise(5)), Answer(FALSE, Fold) }
BotAnswersOk == { Answer(TRUE, Call), Answer(TRUE, Raise(5)) }

\* ------------------------------------------------------------------------
\* runner.rs: the main thread in Runner::run
\* ------------------------------------------------------------------------
\* a worker's panic hook has cleared its liveness flag
Down(w) == w_pc[w] = "dead"
Gone(w) == w_pc[w] \in {"dead", "exited"}

Terminates == [i \in 1..pool_size |-> Job("term", 0)]

\* the main thread panics: the guards it holds are dropped while panicking
\* and its locals are dropped, the pool among them
MainPanic ==
    /\ socket' = MutexPanicked(socket, Main)
    /\ game_lock' = RwPanicked(game_lock, Main)
    /\ round_lock' = RwPanicked(round_lock, Main)
    /\ m_pc' = "drop_pool"
    /\ m_exit' = "panic"

\* ThreadPool::execute: panics if a worker is down, else enqueues the job
Execute(job, next_pc) ==
    IF \E w \in Workers : Down(w)
    THEN /\ MainPanic
         /\ UNCHANGED jobs
    ELSE /\ jobs' = Append(jobs, job)
         /\ m_pc' = next_pc
         /\ UNCHANGED <<socket, game_lock, round_lock, m_exit>>

\* top of the loop: pool.execute(88, sync)
MExecRecv ==
    /\ m_pc = "exec_recv"
    /\ Len(jobs) < MaxJobs
    /\ Execute(Job("recv", 0), "lock_socket")
    /\ UNCHANGED <<cells, last, harness, pool_size, script, eng_sent, inbound,
                   outbound, read_queue, round_sent, bot_lock, chan, m_clauses,
                   state_change, m_upto, w_pc, w_job, applied, nonempty_read,
                   bot_failed, resp>>

\* lock_device(socket); socket.receive()
MLockSocket ==
    /\ m_pc = "lock_socket"
    /\ socket # Free => socket = Poisoned
    /\ IF socket = Poisoned
       THEN /\ MainPanic
            /\ UNCHANGED <<m_clauses, read_queue, m_upto>>
       ELSE /\ socket' = Main
            /\ m_clauses' = read_queue
            /\ read_queue' = <<>>
            /\ m_upto' = IF read_queue = <<>> THEN m_upto
                         ELSE read_queue[Len(read_queue)].line
            /\ m_pc' = "clauses"
            /\ UNCHANGED <<game_lock, round_lock, m_exit>>
    /\ UNCHANGED <<cells, last, harness, pool_size, script, eng_sent, inbound,
                   outbound, round_sent, bot_lock, chan, jobs, state_change,
                   w_pc, w_job, applied, nonempty_read, bot_failed, resp>>

\* one clause of the drained batch: T is written to the game state by the
\* main thread, Q shuts the pool down, the others go to the ordered channel
MClause ==
    /\ m_pc = "clauses"
    /\ m_clauses # <<>>
    /\ LET c == Head(m_clauses)
       IN  CASE c.tok.tag = "T" ->
                  /\ ~CanWrite(game_lock) => game_lock.w = Poisoned
                  /\ IF game_lock.w = Poisoned
                     THEN /\ MainPanic
                          /\ UNCHANGED <<game_state, applied, m_clauses, state_change>>
                     ELSE /\ game_state' = [game_state EXCEPT !.game_clock = c.tok.n]
                          /\ applied' = Append(applied, <<c.line, c.pos>>)
                          /\ m_clauses' = Tail(m_clauses)
                          /\ state_change' = TRUE
                          /\ UNCHANGED <<socket, game_lock, round_lock, m_pc, m_exit>>
                  /\ UNCHANGED <<chan, jobs>>
             [] c.tok.tag = "Q" ->
                  /\ jobs' = jobs \o Terminates
                  /\ m_pc' = "quit_join"
                  /\ m_exit' = "quit"
                  /\ m_clauses' = Tail(m_clauses)
                  /\ state_change' = TRUE
                  /\ UNCHANGED <<game_state, applied, chan, socket, game_lock, round_lock>>
             [] OTHER ->
                  /\ chan' = Append(chan, c)
                  /\ m_clauses' = Tail(m_clauses)
                  /\ state_change' = TRUE
                  /\ UNCHANGED <<game_state, applied, jobs, socket, game_lock,
                                 round_lock, m_pc, m_exit>>
    /\ UNCHANGED <<round_state, terminal_state, player_index, last, harness,
                   pool_size, script, eng_sent, inbound, outbound, read_queue,
                   round_sent, bot_lock, m_upto, w_pc, w_job, nonempty_read,
                   bot_failed, resp>>

\* main loop with the respond job submitted on every tick
next_after_clauses_always(changed) == "exec_dispatch"

\* if state_change { dispatch job; respond job }
next_after_clauses(changed) == IF changed THEN "exec_dispatch" ELSE "check_game"

\* the batch is processed: the socket guard is dropped
MClausesDone ==
    /\ m_pc = "clauses"
    /\ m_clauses = <<>>
    /\ socket' = Free
    /\ m_pc' = next_after_clauses(state_change)
    /\ UNCHANGED <<cells, last, harness, pool_size, script, eng_sent, inbound,
                   outbound, read_queue, round_sent, bot_lock, round_lock,
                   game_lock, chan, jobs, m_clauses, state_change, m_upto, m_exit,
                   w_pc, w_job, applied, nonempty_read, bot_failed, resp>>

\* pool.execute(69, dispatch)
MExecDispatch ==
    /\ m_pc = "exec_dispatch"
    /\ Execute(Job("dispatch", m_upto), "exec_respond")
    /\ UNCHANGED <<cells, last, harness, pool_size, script, eng_sent, inbound,
                   outbound, read_queue, round_sent, bot_lock, chan, m_clauses,
                   state_change, m_upto, w_pc, w_job, applied, nonempty_read,
                   bot_failed, resp>>

\* pool.execute(9, respond)
MExecRespond ==
    /\ m_pc = "exec_respond"
    /\ Execute(Job("respond", m_upto), "check_game")
    /\ UNCHANGED <<cells, last, harness, pool_size, script, eng_sent, inbound,
                   outbound, read_queue, round_sent, bot_lock, chan, m_clauses,
                   state_change, m_upto, w_pc, w_job, applied, nonempty_read,
                   bot_failed, resp>>

\* state_change = false; poll_until_read(game_state)
MCheckGame ==
    /\ m_pc = "check_game"
    /\ ~CanRead(game_lock) => game_lock.w = Poisoned
    /\ state_change' = FALSE
    /\ IF game_lock.w = Poisoned
       THEN MainPanic
       ELSE /\ game_lock' = [game_lock EXCEPT !.r = @ \cup {Main}]
            /\ m_pc' = "check_round"
            /\ UNCHANGED <<socket, round_lock, m_exit>>
    /\ UNCHANGED <<cells, last, harness, pool_size, script, eng_sent, inbound,
                   outbound, read_queue, round_sent, bot_lock, chan, jobs,
                   m_clauses, m_upto, w_pc, w_job, applied, nonempty_read,
                   bot_failed, resp>>

\* relative_eq!(game_clock, 0.0, epsilon = 0.001): the clock is counted in
\* thousandths of a second
CLOCK_EPSILON == 1

\* the end-of-game test with the clock condition not tied to round_num
game_over_any_round(gs, rs) ==
    \/ -CLOCK_EPSILON <= gs.game_clock /\ gs.game_clock <= CLOCK_EPSILON
    \/ gs.round_num = 1001 /\ rs = None

\* the end-of-game test of the loop, without the wall clock
game_over(gs, rs) ==
    \/ /\ -CLOCK_EPSILON <= gs.game_clock /\ gs.game_clock <= CLOCK_EPSILON
       /\ gs.round_num > 1
    \/ gs.round_num = 1001 /\ rs = None

\* poll_until_read(round_state); return if the game is over or the wall
\* clock has passed COMP_TIME (timed_out), else sleep and loop
MCheckRound(timeouts) ==
    /\ m_pc = "check_round"
    /\ ~CanRead(round_lock) => round_lock.w = Poisoned
    /\ IF round_lock.w = Poisoned
       THEN MainPanic
       ELSE \E timed_out \in timeouts :
               /\ game_lock' = RwReleased(game_lock, Main)
               /\ IF game_over(game_state, round_state) \/ timed_out
                  THEN /\ m_pc' = "drop_pool"
                       /\ m_exit' = IF game_over(game_state, round_state)
                                    THEN "over" ELSE "timed_out"
                  ELSE m_pc' = "exec_recv" /\ m_exit' = m_exit
               /\ UNCHANGED <<socket, round_lock>>
    /\ UNCHANGED <<cells, last, harness, pool_size, script, eng_sent, inbound,
                   outbound, read_queue, round_sent, bot_lock, chan, jobs,
                   m_clauses, state_change, m_upto, w_pc, w_job, applied,
                   nonempty_read, bot_failed, resp>>

\* Drop for ThreadPool -> shutdown(): one Terminate per worker
MDropPool ==
    /\ m_pc = "drop_pool"
    /\ jobs' = jobs \o Terminates
    /\ m_pc' = "join"
    /\ UNCHANGED <<cells, last, harness, pool_size, script, eng_sent, inbound,
                   outbound, read_queue, round_sent, socket, bot_lock, round_lock,
                   game_lock, chan, m_clauses, state_change, m_upto, m_exit,
                   w_pc, w_job, applied, nonempty_read, bot_failed, resp>>

\* shutdown(): every worker thread is joined.  On Q the main thread still
\* holds the socket guard while it joins, and drops it when run returns.
MJoin ==
    /\ m_pc \in {"join", "quit_join"}
    /\ \A w \in Workers : Gone(w)
    /\ socket' = MutexReleased(socket, Main)
    /\ m_pc' = "done"
    /\ UNCHANGED <<cells, last, harness, pool_size, script, eng_sent, inbound,
                   outbound, read_queue, round_sent, bot_lock, round_lock,
                   game_lock, chan, jobs, m_clauses, state_change, m_upto, m_exit,
                   w_pc, w_job, applied, nonempty_read, bot_failed, resp>>

\* ------------------------------------------------------------------------
\* thread_pool.rs: a worker takes the next message; runner.rs: the jobs
\* ------------------------------------------------------------------------
first_pc(kind) ==
    CASE kind = "recv" -> "recv_lock"
      [] kind = "dispatch" -> "disp_round"
      [] kind = "respond" -> "resp_socket"
      [] kind = "term" -> "exited"

\* receiver.lock().unwrap().recv().unwrap(): the oldest message
WTake(w) ==
    /\ w_pc[w] = "idle"
    /\ jobs # <<>>
    /\ jobs' = Tail(jobs)
    /\ w_job' = [w_job EXCEPT ![w] = Head(jobs)]
    /\ w_pc' = [w_pc EXCEPT ![w] = first_pc(Head(jobs).kind)]
    /\ UNCHANGED <<cells, last, harness, pool_size, script, eng_sent, inbound,
                   outbound, read_queue, round_sent, socket, bot_lock, round_lock,
                   game_lock, chan, m_pc, m_clauses, state_change, m_upto, m_exit,
                   applied, nonempty_read, bot_failed, resp>>

\* the job of worker w panics: its guards are dropped while panicking (a
\* Mutex or a write-held RwLock is poisoned) and the thread ends
WorkerPanic(w) ==
    /\ socket' = MutexPanicked(socket, w)
    /\ bot_lock' = MutexPanicked(bot_lock, w)
    /\ round_lock' = RwPanicked(round_lock, w)
    /\ game_lock' = RwPanicked(game_lock, w)
    /\ w_pc' = [w_pc EXCEPT ![w] = "dead"]
    /\ w_job' = [w_job EXCEPT ![w] = NoJob]

\* the job of worker w returns: its guards are dropped
WorkerReturn(w) ==
    /\ socket' = MutexReleased(socket, w)
    /\ bot_lock' = MutexReleased(bot_lock, w)
    /\ round_lock' = RwReleased(round_lock, w)
    /\ game_lock' = RwReleased(game_lock, w)
    /\ w_pc' = [w_pc EXCEPT ![w] = "idle"]
    /\ w_job' = [w_job EXCEPT ![w] = NoJob]

\* worker w goes on to the next step of its job with the locks as given
WorkerGoes(w, pc) ==
    /\ w_pc' = [w_pc EXCEPT ![w] = pc]
    /\ w_job' = w_job

\* lock_device(socket) of the receive and of the respond job
WLockSocket(w) ==
    /\ w_pc[w] \in {"recv_lock", "resp_socket"}
    /\ socket # Free => socket = Poisoned
    /\ IF socket = Poisoned
       THEN WorkerPanic(w)
       ELSE /\ socket' = w
            /\ WorkerGoes(w, IF w_pc[w] = "recv_lock" THEN "recv_read" ELSE "resp_round")
            /\ UNCHANGED <<bot_lock, round_lock, game_lock>>
    /\ UNCHANGED <<cells, last, harness, pool_size, script, eng_sent, inbound,
                   outbound, read_queue, round_sent, chan, jobs, m_pc, m_clauses,
                   state_change, m_upto, m_exit, applied, nonempty_read,
                   bot_failed, resp>>

\* the tokens of a line with the number of the line and their positions
stamp_line(line, number) == [i \in 1..Len(line) |-> Stamped(line[i], number, i)]

\* Socket::sync: read_line blocks, the socket guard held, until a line is
\* there; its tokens are pushed to the read queue
WRecvRead(w) ==
    /\ w_pc[w] = "recv_read"
    /\ inbound # <<>>
    /\ read_queue' = read_queue \o stamp_line(Head(inbound), eng_sent - Len(inbound) + 1)
    /\ inbound' = Tail(inbound)
    /\ nonempty_read' = IF Head(inbound) = <<>> THEN nonempty_read ELSE nonempty_read + 1
    /\ WorkerReturn(w)
    /\ UNCHANGED <<cells, last, harness, pool_size, script, eng_sent, outbound,
                   round_sent, chan, jobs, m_pc, m_clauses, state_change, m_upto,
                   m_exit, applied, bot_failed, resp>>

\* poll_until_write(round_state) of the dispatch job
WDispRound(w) ==
    /\ w_pc[w] = "disp_round"
    /\ ~CanWrite(round_lock) => round_lock.w = Poisoned
    /\ IF round_lock.w = Poisoned
       THEN WorkerPanic(w)
       ELSE /\ round_lock' = [round_lock EXCEPT !.w = w]
            /\ WorkerGoes(w, "disp_game")
            /\ UNCHANGED <<socket, bot_lock, game_lock>>
    /\ UNCHANGED <<cells, last, harness, pool_size, script, eng_sent, inbound,
                   outbound, read_queue, round_sent, chan, jobs, m_pc, m_clauses,
                   state_change, m_upto, m_exit, applied, nonempty_read,
                   bot_failed, resp>>

\* poll_until_write(game_state), then the guards of terminal_state, of the
\* bot and of the event queue, which only a holder of the round write guard
\* or of the round read guard takes
WDispGame(w) ==
    /\ w_pc[w] = "disp_game"
    /\ ~(CanWrite(game_lock) /\ bot_lock = Free) =>
          (game_lock.w = Poisoned \/ bot_lock = Poisoned)
    /\ IF game_lock.w = Poisoned \/ bot_lock = Poisoned
       THEN WorkerPanic(w)
       ELSE /\ game_lock' = [game_lock EXCEPT !.w = w]
            /\ bot_lock' = w
            /\ WorkerGoes(w, "disp_drain")
            /\ UNCHANGED <<socket, round_lock>>
    /\ UNCHANGED <<cells, last, harness, pool_size, script, eng_sent, inbound,
                   outbound, read_queue, round_sent, chan, jobs, m_pc, m_clauses,
                   state_change, m_upto, m_exit, applied, nonempty_read,
                   bot_failed, resp>>

\* the event makes a bot callback in the present cells (StartRound, and
\* Delta when a terminal state is held)
calls_bot(tok) ==
    dispatch(round_state, game_state, terminal_state, player_index, tok, TRUE).call
        # NoCall

\* while let Ok(action) = action_queue.try_recv(): one event applied, with
\* bot_ok the result of the callback it makes; the job returns when the
\* queue is empty or a callback fails, and panics on a protocol error.  An
\* event that makes a callback takes two steps: the callback is entered
\* ("disp_calling"), and it returns and the event's writes are made (all
\* guards are held throughout, so nobody sees the bankroll that a Delta
\* writes before its callback)
WDispDrain(w, bot_results) ==
    /\ w_pc[w] \in {"disp_drain", "disp_calling"}
    /\ IF chan = <<>>
       THEN /\ WorkerReturn(w)
            /\ UNCHANGED <<cells, last, chan, applied, bot_failed>>
       ELSE IF w_pc[w] = "disp_drain" /\ calls_bot(Head(chan).tok)
       THEN /\ WorkerGoes(w, "disp_calling")
            /\ UNCHANGED <<cells, last, chan, applied, bot_failed, socket,
                           bot_lock, round_lock, game_lock>>
       ELSE \E bot_ok \in bot_results :
               LET e == Head(chan)
                   res == dispatch(round_state, game_state, terminal_state,
                                   player_index, e.tok, bot_ok)
               IN  /\ chan' = Tail(chan)
                   /\ round_state' = res.round
                   /\ game_state' = res.game
                   /\ terminal_state' = res.terminal
                   /\ player_index' = res.player_index
                   /\ last' = Applied(e.tok, res)
                   /\ applied' = Append(applied, <<e.line, e.pos>>)
                   /\ bot_failed' = (bot_failed \/ res.outcome = "err")
                   /\ CASE res.outcome = "ok" ->
                             /\ WorkerGoes(w, "disp_drain")
                             /\ UNCHANGED <<socket, bot_lock, round_lock, game_lock>>
                        [] res.outcome = "err" -> WorkerReturn(w)
                        [] res.outcome = "panic" -> WorkerPanic(w)
    /\ UNCHANGED <<harness, pool_size, script, eng_sent, inbound, outbound,
                   read_queue, round_sent, jobs, m_pc, m_clauses, state_change,
                   m_upto, m_exit, nonempty_read, resp>>

\* a respond job that enters get_action without the round, game and bot guards
WRespRound_no_guards(w) ==
    /\ w_pc[w] = "resp_round"
    /\ round_state # None
    /\ WorkerGoes(w, "resp_asking")
    /\ UNCHANGED <<cells, last, harness, pool_size, script, eng_sent, inbound,
                   outbound, read_queue, round_sent, socket, bot_lock, round_lock,
                   game_lock, chan, jobs, m_pc, m_clauses, state_change, m_upto,
                   m_exit, applied, nonempty_read, bot_failed, resp>>

\* poll_until_read(round_state) of the respond job
WRespRound(w) ==
    /\ w_pc[w] = "resp_round"
    /\ ~CanRead(round_lock) => round_lock.w = Poisoned
    /\ IF round_lock.w = Poisoned
       THEN WorkerPanic(w)
       ELSE /\ round_lock' = [round_lock EXCEPT !.r = @ \cup {w}]
            /\ WorkerGoes(w, "resp_game")
            /\ UNCHANGED <<socket, bot_lock, game_lock>>
    /\ UNCHANGED <<cells, last, harness, pool_size, script, eng_sent, inbound,
                   outbound, read_queue, round_sent, chan, jobs, m_pc, m_clauses,
                   state_change, m_upto, m_exit, applied, nonempty_read,
                   bot_failed, resp>>

\* poll_until_read(game_state) of the respond job
WRespGame(w) ==
    /\ w_pc[w] = "resp_game"
    /\ ~CanRead(game_lock) => game_lock.w = Poisoned
    /\ IF game_lock.w = Poisoned
       THEN WorkerPanic(w)
       ELSE /\ game_lock' = [game_lock EXCEPT !.r = @ \cup {w}]
            /\ WorkerGoes(w, "resp_act")
            /\ UNCHANGED <<socket, bot_lock, round_lock>>
    /\ UNCHANGED <<cells, last, harness, pool_size, script, eng_sent, inbound,
                   outbound, read_queue, round_sent, chan, jobs, m_pc, m_clauses,
                   state_change, m_upto, m_exit, applied, nonempty_read,
                   bot_failed, resp>>

\* a line written by Socket::send for the respond job `job`
Written(action, job) == [act |-> action, upto |-> job.upto]

\* what a respond job read and did: the line it was submitted for, whether
\* events of that line or of an earlier one were still queued, the round it
\* read, whether it called get_action and whether it wrote a line
Responded(job, asked, wrote) ==
    [upto |-> job.upto,
     stale |-> \E i \in 1..Len(chan) : chan[i].line <= job.upto,
     round |-> round_state, asked |-> asked, wrote |-> wrote]

\* Socket::send under the latch: the line is written while round_sent is set
\* (the respond job has just set it) and the latch is cleared; the stream
\* takes the write, so that the retry loop ends at its first pass
send(action, job) ==
    /\ outbound' = Append(outbound, Written(action, job))
    /\ round_sent' = FALSE

\* the body of the respond job, the socket guard and both read guards held.
\* With a round: assert the client is the active seat and, unless the latch
\* is set, set it, take the bot (lock_device) and enter get_action
\* ("resp_asking").  Without a round: unless the latch is set, send the
\* keep-alive.
WRespAct(w) ==
    /\ w_pc[w] = "resp_act"
    /\ IF round_state # None
       THEN IF player_index # round_state.button % 2
            THEN /\ WorkerPanic(w)
                 /\ UNCHANGED <<outbound, round_sent, resp>>
            ELSE IF round_sent
            THEN /\ resp' = Responded(w_job[w], FALSE, FALSE)
                 /\ WorkerReturn(w)
                 /\ UNCHANGED <<outbound, round_sent>>
            ELSE /\ bot_lock # Free => bot_lock = Poisoned
                 /\ round_sent' = TRUE
                 /\ IF bot_lock = Poisoned
                    THEN WorkerPanic(w)
                    ELSE /\ bot_lock' = w
                         /\ WorkerGoes(w, "resp_asking")
                         /\ UNCHANGED <<socket, round_lock, game_lock>>
                 /\ UNCHANGED <<outbound, resp>>
       ELSE /\ IF round_sent
               THEN /\ resp' = Responded(w_job[w], FALSE, FALSE)
                    /\ UNCHANGED <<outbound, round_sent>>
               ELSE /\ send(Check, w_job[w])
                    /\ resp' = Responded(w_job[w], FALSE, TRUE)
            /\ WorkerReturn(w)
    /\ UNCHANGED <<cells, last, harness, pool_size, script, eng_sent, inbound,
                   read_queue, chan, jobs, m_pc, m_clauses, state_change, m_upto,
                   m_exit, applied, nonempty_read, bot_failed>>

\* get_action returns: on Ok the legalised answer is sent (which clears the
\* latch), on Err the job returns and the latch stays set
WRespAnswer(w, answers) ==
    /\ w_pc[w] = "resp_asking"
    /\ \E answer \in answers :
          IF answer.ok
          THEN /\ send(legalise(round_state, answer.act), w_job[w])
               /\ resp' = Responded(w_job[w], TRUE, TRUE)
               /\ UNCHANGED bot_failed
          ELSE /\ bot_failed' = TRUE
               /\ resp' = Responded(w_job[w], TRUE, FALSE)
               /\ UNCHANGED <<outbound, round_sent>>
    /\ WorkerReturn(w)
    /\ UNCHANGED <<cells, last, harness, pool_size, script, eng_sent, inbound,
                   read_queue, chan, jobs, m_pc, m_clauses, state_change, m_upto,
                   m_exit, applied, nonempty_read>>

\* ------------------------------------------------------------------------
\* Spec: the runner with a pool of 1..MaxWorkers workers and an engine that
\* sends the lines of a script whenever it likes.  Bot callbacks may fail and
\* the wall clock may run out at any tick.
\* ------------------------------------------------------------------------
Init ==
    /\ CellsInit
    /\ last = NoLast
    /\ r_phase = "idle"
    /\ r_raises = 0
    /\ pure = NoPure
    /\ pool_size \in 1..MaxWorkers
    /\ script \in DOMAIN Scripts
    /\ m_pc = "exec_recv"
    /\ RunnerStart

MainStep(timeouts) ==
    \/ MExecRecv
    \/ MLockSocket
    \/ MClause
    \/ MClausesDone
    \/ MExecDispatch
    \/ MExecRespond
    \/ MCheckGame
    \/ MCheckRound(timeouts)
    \/ MDropPool
    \/ MJoin

WorkerStep(w, bot_results, answers) ==
    \/ WTake(w)
    \/ WLockSocket(w)
    \/ WRecvRead(w)
    \/ WDispRound(w)
    \/ WDispGame(w)
    \/ WDispDrain(w, bot_results)
    \/ WRespRound(w)
    \/ WRespGame(w)
    \/ WRespAct(w)
    \/ WRespAnswer(w, answers)

Next ==
    \/ EngineSend
    \/ MainStep(BOOLEAN)
    \/ \E w \in Workers : WorkerStep(w, BOOLEAN, BotAnswers)

Spec == Init /\ [][Next]_vars

\* ------------------------------------------------------------------------
\* SpecLive: the runner against an engine that waits for every reply, with an
\* agent that never fails and a wall clock that never runs out.  The main
\* thread, every worker and the engine are scheduled fairly: a step that is
\* possible again and again is eventually taken (a thread spinning on
\* try_lock gets the lock if it is free again and again).
\* ------------------------------------------------------------------------
LiveMain == MainStep({FALSE})

LiveWorker(w) == w \in Workers /\ WorkerStep(w, {TRUE}, BotAnswersOk)

LiveNext ==
    \/ EngineLockstep
    \/ LiveMain
    \/ \E w \in 1..MaxWorkers : LiveWorker(w)

SpecLive ==
    /\ Init
    /\ [][LiveNext]_vars
    /\ SF_vars(EngineLockstep)
    /\ SF_vars(LiveMain)
    /\ \A w \in 1..MaxWorkers : SF_vars(LiveWorker(w))

\* ------------------------------------------------------------------------
\* Properties of the legality layer (SpecPure)
\* ------------------------------------------------------------------------
\* the ActionType flag of an Action
flag_of(action) ==
    CASE action.kind = "Fold" -> "FOLD"
      [] action.kind = "Call" -> "CALL"
      [] action.kind = "Check" -> "CHECK"
      [] action.kind = "Raise" -> "RAISE"

\* C4: whatever get_action returns on a round state with
\* pips[active] <= pips[1-active], the action written to the wire is one of
\* legal_actions() of that state, and a Raise(m) written has
\* raise_bounds()[0] <= m <= raise_bounds()[1].
C4_WireActionLegal ==
    pure.done =>
        /\ flag_of(pure.wire) \in legal_actions(round_state)
        /\ pure.wire.kind = "Raise" =>
              /\ raise_bounds(round_state)[1] <= pure.wire.amt
              /\ pure.wire.amt <= raise_bounds(round_state)[2]

\* C4 witness: the agent's Raise lies outside the bounds of a state where
\* RAISE is legal, and the responder has replaced it
C4_Witness ==
    /\ pure.done
    /\ pure.bot.kind = "Raise"
    /\ "RAISE" \in pure.legal
    /\ pure.bot.amt > pure.bounds[2]
    /\ pure.wire = Call

\* C6: with cc = pips[1-active] - pips[active] >= 0, legal_actions() is
\* {CHECK}, plus RAISE iff both stacks are non-zero, when cc = 0, and
\* {FOLD, CALL}, plus RAISE iff cc # stacks[active] and stacks[1-active] # 0,
\* when cc > 0; where RAISE is offered the raise bounds are a non-empty range.
C6_LegalActions ==
    pure.done =>
        LET rs == round_state
            a == rs.button % 2
            cc == rs.pips[1 - a] - rs.pips[a]
            offered == IF cc = 0
                       THEN rs.stacks[0] # 0 /\ rs.stacks[1] # 0
                       ELSE cc # rs.stacks[a] /\ rs.stacks[1 - a] # 0
            base == IF cc = 0 THEN {"CHECK"} ELSE {"FOLD", "CALL"}
        IN  /\ pure.legal = base \cup (IF offered THEN {"RAISE"} ELSE {})
            /\ "RAISE" \in pure.legal => pure.bounds[1] <= pure.bounds[2]

\* C6 witness: cc > 0 and cc # stacks[active], and RAISE is withheld because
\* the opponent's stack is empty
C6_Witness ==
    /\ pure.done
    /\ continue_cost(round_state) > 0
    /\ continue_cost(round_state) # round_state.stacks[active_of(round_state)]
    /\ round_state.stacks[1 - active_of(round_state)] = 0
    /\ pure.legal = {"FOLD", "CALL"}

\* C7: with cc >= 0, raise_bounds() is
\* [pips[active] + min_contrib, pips[active] + max_contrib] with
\* max_contrib = min(stacks[active], stacks[1-active] + cc) and
\* min_contrib = min(max_contrib, cc + max(cc, BIG_BLIND)), and the lower
\* bound never exceeds the upper bound.
C7_RaiseBounds ==
    pure.done =>
        LET rs == round_state
            a == rs.button % 2
            cc == rs.pips[1 - a] - rs.pips[a]
            own == rs.stacks[a]
            opp == rs.stacks[1 - a] + cc
            max_c == IF own <= opp THEN own ELSE opp
            want == cc + (IF cc >= 2 THEN cc ELSE 2)
            min_c == IF max_c <= want THEN max_c ELSE want
        IN  /\ pure.bounds = <<rs.pips[a] + min_c, rs.pips[a] + max_c>>
            /\ pure.bounds[1] <= pure.bounds[2]

\* C7 witness: the minimum contribution cc + max(cc, BIG_BLIND) is capped by
\* the maximum contribution
C7_Witness ==
    /\ pure.done
    /\ continue_cost(round_state) > 0
    /\ continue_cost(round_state) + max(continue_cost(round_state), BIG_BLIND)
          > round_state.stacks[active_of(round_state)]
    /\ pure.bounds[1] = pure.bounds[2]

\* ------------------------------------------------------------------------
\* SpecRound: the dispatcher applying, one after the other, the events of an
\* engine that plays one round of legal actions: P and H start it, actions
\* legal in the state they are applied to and board updates follow, a fold
\* or a showdown ends it, O reveals the opponent hand after a showdown and
\* D closes the round.  No code reads RoundState::previous, so the harness
\* keeps the chain to depth PrevDepth only.
\* ------------------------------------------------------------------------
RECURSIVE Truncate(_, _)
Truncate(rs, depth) ==
    IF rs = None THEN None
    ELSE IF rs.tag = "Terminal"
         THEN [rs EXCEPT !.previous = Truncate(@, depth)]
         ELSE IF depth = 0
              THEN [rs EXCEPT !.previous = None]
              ELSE [rs EXCEPT !.previous = Truncate(@, depth - 1)]

OwnHands == { <<1, 2>> }
OppHands == { <<3, 4>> }
Decks == { <<5, 6, 7>>, <<5, 6, 7, 8>>, <<5, 6, 7, 8, 9>> }
Deltas == { -3, 0, 2 }

\* the raise amounts the engine's players choose among: the ends of the
\* legal range and their neighbours
RaiseChoices(rs) ==
    LET b == raise_bounds(rs)
    IN  { n \in {b[1], b[1] + 1, b[2] - 1, b[2]} : b[1] <= n /\ n <= b[2] }

\* the action tokens legal in rs
LegalToks(rs, raises) ==
    LET legal == legal_actions(rs)
    IN  { Tok(t, 0, <<>>) : t \in { x \in {"F", "C", "K"} :
                                      flag_of(action_of(Tok(x, 0, <<>>))) \in legal } }
        \cup (IF "RAISE" \in legal /\ raises < MaxRaises
              THEN { Tok("R", n, <<>>) : n \in RaiseChoices(rs) }
              ELSE {})

RoundInit ==
    /\ CellsInit
    /\ last = NoLast
    /\ r_phase = "idle"
    /\ r_raises = 0
    /\ pure = NoPure
    /\ RunnerIdle

\* one event applied by the dispatcher (bot callbacks return Ok)
RApply(tok, bot_ok) ==
    LET res == dispatch(round_state, game_state, terminal_state, player_index,
                        tok, bot_ok)
    IN  /\ round_state' = Truncate(res.round, PrevDepth)
        /\ game_state' = res.game
        /\ terminal_state' = Truncate(res.terminal, PrevDepth)
        /\ player_index' = res.player_index
        /\ last' = Applied(tok, res)
        /\ UNCHANGED <<pure, runner>>

RSetPlayerIndex ==
    /\ r_phase = "idle"
    /\ \E i \in Seats : RApply(Tok("P", i, <<>>), TRUE)
    /\ UNCHANGED <<r_phase, r_raises>>

RStartRound ==
    /\ r_phase = "idle"
    /\ \E h \in OwnHands : RApply(Tok("H", 0, h), TRUE)
    /\ r_phase' = "live"
    /\ r_raises' = 0

RAction ==
    /\ r_phase = "live"
    /\ \E tok \in LegalToks(round_state, r_raises) :
          /\ RApply(tok, TRUE)
          /\ r_raises' = IF tok.tag = "R" THEN r_raises + 1 ELSE r_raises
          /\ r_phase' = IF proceed(round_state, action_of(tok)).tag = "Round"
                        THEN "live"
                        ELSE IF tok.tag = "F" THEN "folded" ELSE "showdown"

RUpdateDeck ==
    /\ r_phase = "live"
    /\ \E d \in Decks : RApply(Tok("B", 0, d), TRUE)
    /\ UNCHANGED <<r_phase, r_raises>>

RReveal ==
    /\ r_phase = "showdown"
    /\ \E h \in OppHands : RApply(Tok("O", 0, h), TRUE)
    /\ r_phase' = "revealed"
    /\ UNCHANGED r_raises

RDelta ==
    /\ r_phase \in {"folded", "showdown", "revealed"}
    /\ \E d \in Deltas : RApply(Tok("D", d, <<>>), TRUE)
    /\ r_phase' = "closed"
    /\ UNCHANGED r_raises

RoundNext ==
    \/ RSetPlayerIndex
    \/ RStartRound
    \/ RAction
    \/ RUpdateDeck
    \/ RReveal
    \/ RDelta

SpecRound == RoundInit /\ [][RoundNext]_vars

\* ------------------------------------------------------------------------
\* Properties of the betting state machine (SpecRound)
\* ------------------------------------------------------------------------
\* C8: in every RoundState reached from the StartRound state by actions legal
\* where they are applied, interleaved with UpdateDeck events,
\* stacks[i] + pips[i] <= STARTING_STACK for both seats.
C8_ChipsBounded ==
    round_state # None =>
        \A i \in Seats : round_state.stacks[i] + round_state.pips[i] <= STARTING_STACK

\* C8 witness: a raise has been applied and called, and the board of the
\* flop has arrived: the pips are back to zero and chips have left the stacks
C8_Witness ==
    /\ round_state # None
    /\ r_raises >= 1
    /\ round_state.street = 3
    /\ round_state.pips = Pair(0, 0)
    /\ round_state.stacks[0] < STARTING_STACK - BIG_BLIND
    /\ round_state.stacks[0] = round_state.stacks[1]

\* C9: proceed(Fold) yields a TerminalState in which the folding (active)
\* seat's delta is -(STARTING_STACK - stacks[folder]) and the other seat's
\* delta is +(STARTING_STACK - stacks[folder]), whichever seat folds.
C9_FoldDeltas ==
    (last.outcome = "ok" /\ last.tok.tag = "F") =>
        LET pre == last.pre_round
            folder == pre.button % 2
            committed == STARTING_STACK - pre.stacks[folder]
        IN  /\ terminal_state.deltas[folder] = -committed
            /\ terminal_state.deltas[1 - folder] = committed

\* C10: every TerminalState produced by proceed (fold or showdown),
\* synthesised on Reveal, or built on Delta and passed to round_over, has
\* deltas[0] + deltas[1] = 0.
C10_ZeroSum ==
    /\ terminal_state # None =>
          terminal_state.deltas[0] + terminal_state.deltas[1] = 0
    /\ (last.outcome # "none" /\ last.call.cb = "round_over") =>
          last.call.arg.deltas[0] + last.call.arg.deltas[1] = 0

\* C10 witness: a Delta with a non-zero payoff has been applied after a
\* Reveal, and round_over has received the TerminalState built for it
C10_Witness ==
    /\ r_phase = "closed"
    /\ last.tok.tag = "D"
    /\ last.tok.n # 0
    /\ last.pre_terminal.previous.hands[1 - player_index] # None
    /\ last.call.cb = "round_over"
    /\ last.call.arg = terminal_state
    /\ terminal_state.deltas[player_index] = last.tok.n

\* ------------------------------------------------------------------------
\* Properties of the runner (Spec, SpecLive)
\* ------------------------------------------------------------------------
\* C1: in every execution the number of lines written to the engine is at
\* most the number of non-empty inbound lines read so far
C1_WritesBounded == Len(outbound) <= nonempty_read

\* two non-empty lines were read and each was answered, the first by the
\* keep-alive and the second by an action of the agent
C1_Witness ==
    /\ nonempty_read = 2
    /\ Len(outbound) = 2
    /\ outbound[1].act = Check
    /\ outbound[2].act = Call
    /\ resp.upto = 2 /\ resp.asked /\ resp.wrote

\* line k of the session is owed a reply: it is not empty, has no Q token,
\* and the engine has not reported a game clock of zero up to it
Awaited(k) ==
    /\ k <= Len(Scripts[script])
    /\ Scripts[script][k] # <<>>
    /\ ~has_tag(Scripts[script][k], "Q")
    /\ \A i \in 1..k : \A j \in 1..Len(Scripts[script][i]) :
          Scripts[script][i][j].tag = "T" => Scripts[script][i][j].n > CLOCK_EPSILON

\* C2: with an engine that sends its next line only after the reply to the
\* previous one and fairly scheduled threads, every non-empty line without a
\* Q token that the engine has sent is eventually answered
C2_EveryLineAnswered ==
    \A k \in 1..MaxLines :
        (eng_sent >= k /\ Awaited(k)) ~> (Len(outbound) >= expects(k))

\* C3: a respond job that calls get_action or writes a line does so only when
\* no event of its line or of an earlier line is still queued (the agent
\* having never failed)
C3_RespondAfterDispatch ==
    (resp.upto > 0 /\ ~bot_failed /\ (resp.asked \/ resp.wrote)) => ~resp.stale

\* token a stands before token b on the wire
wire_before(a, b) == a[1] < b[1] \/ (a[1] = b[1] /\ a[2] < b[2])

\* C5: the tokens are applied to the shared state in the order in which
\* they stand on the wire
C5_WireOrder ==
    \A i, j \in 1..Len(applied) : i < j => wire_before(applied[i], applied[j])

\* the event recorded in `last` was applied by this step
applies(tag) == last' # last /\ last'.tok.tag = tag

\* C11: the bankroll starts at 0 and every step changes it by d if the step
\* is the application of a Delta(d) that found a terminal state, and by
\* nothing otherwise (T, P, H, actions, B, O, every step of the main thread)
C11_BankrollStep ==
    game_state'.bankroll - game_state.bankroll =
        IF applies("D") /\ last'.outcome # "panic" THEN last'.tok.n ELSE 0

C11_Bankroll ==
    /\ game_state.bankroll = 0
    /\ [][C11_BankrollStep]_vars

\* the Deltas 2 and -1 of two rounds were applied: the bankroll is 1
C11_Witness ==
    /\ last.outcome = "ok" /\ last.tok = TokD(-1)
    /\ last.pre_game.bankroll = 2
    /\ game_state.bankroll = 1

\* C12: round_num starts at 1 and every step adds 1 to it if the step is the
\* application of a Delta that found a terminal state, and nothing
\* otherwise; such a Delta leaves no round
C12_RoundNumStep ==
    /\ game_state'.round_num - game_state.round_num =
           IF applies("D") /\ last'.outcome # "panic" THEN 1 ELSE 0
    /\ (applies("D") /\ last'.outcome # "panic") => round_state' = None

C12_RoundNum ==
    /\ game_state.round_num = 1
    /\ [][C12_RoundNumStep]_vars

\* C13: right after a StartRound event is applied the terminal cell is None
C13_TerminalCleared ==
    (last.outcome = "ok" /\ last.tok.tag = "H") => terminal_state = None

\* C14: a respond job that finds a round (the client's seat being the
\* active one) calls get_action, also after an earlier call that failed
C14_RetryAfterError ==
    (resp.upto > 0 /\ resp.round # None) => resp.asked

\* C15: a Delta abandoned because round_over returned an error leaves
\* bankroll, round_num, round and terminal as they were before it
C15_AbandonedDelta ==
    (last.outcome = "err" /\ last.tok.tag = "D") =>
        /\ game_state.bankroll = last.pre_game.bankroll
        /\ game_state.round_num = last.pre_game.round_num
        /\ round_state = last.pre_round
        /\ terminal_state = last.pre_terminal

\* ------------------------------------------------------------------------
\* SpecEvents: the dispatcher applying, one after the other, up to MaxEvents
\* events that come in any order: P, H, B, O and D at any time, an action
\* legal in the round if there is one and any action if there is none.  The
\* callbacks may fail; after a panic nothing more is applied.
\* ------------------------------------------------------------------------
AnyToks(rs) ==
    { TokP(0), TokP(1), TokH, TokB(<<5, 6, 7>>), Tok("O", 0, <<3, 4>>), TokD(2) }
    \cup (IF rs = None THEN { TokF, TokC, TokK, TokR(4) } ELSE LegalToks(rs, 0))

EApply ==
    /\ r_phase = "idle"
    /\ r_raises < MaxEvents
    /\ \E tok \in AnyToks(round_state), bot_ok \in BOOLEAN :
          /\ RApply(tok, bot_ok)
          /\ r_phase' = IF dispatch(round_state, game_state, terminal_state,
                                    player_index, tok, bot_ok).outcome = "panic"
                        THEN "dead" ELSE "idle"
    /\ r_raises' = r_raises + 1

EventsNext == EApply

SpecEvents == RoundInit /\ [][EventsNext]_vars

\* C16: an Action, UpdateDeck or Reveal applied while there is no round, and
\* a Delta applied while no terminal state is held, panics and leaves game,
\* round and terminal as they were
C16_FatalEvents ==
    ( /\ last.outcome # "none"
      /\ \/ last.tok.tag \in {"F", "C", "K", "R", "B", "O"} /\ last.pre_round = None
         \/ last.tok.tag = "D" /\ last.pre_terminal = None )
    => /\ last.outcome = "panic"
       /\ r_phase = "dead"
       /\ round_state = last.pre_round
       /\ game_state = last.pre_game
       /\ terminal_state = last.pre_terminal

\* a Delta applied in a live round that has produced no terminal state
C16_Witness ==
    /\ last.outcome = "panic"
    /\ last.tok.tag = "D"
    /\ last.pre_round # None
    /\ last.pre_terminal = None

\* worker w is inside a callback of the agent: new_round or round_over of
\* the dispatch job, get_action of the respond job
in_callback(w) == w_pc[w] \in {"disp_calling", "resp_asking"}

\* C17: at no time are two callbacks of the agent executing, and a worker
\* inside a callback holds the bot mutex
C17_OneCallback ==
    /\ Cardinality({ w \in Workers : in_callback(w) }) <= 1
    /\ \A w \in Workers : in_callback(w) => bot_lock = w

\* a callback is executing while another worker runs a job that makes one
C17_Witness ==
    \E w, v \in Workers :
        \/ w_pc[w] = "disp_calling" /\ w_pc[v] = "resp_round"
                                     /\ round_state # None
        \/ w_pc[w] = "resp_asking" /\ w_pc[v] = "disp_round" /\ chan # <<>>
                                    /\ calls_bot(Head(chan).tok)

\* ------------------------------------------------------------------------
\* SpecTick: the end of a tick of the main loop (the end-of-game test and
\* what follows it when the loop returns) from any game state and round the
\* loop may have come to, the pool idle
\* ------------------------------------------------------------------------
TickClocks == { 0, 1, 2, 30 }
TickRounds == { 1, 2, 1000, 1001, 1002 }

TickInit ==
    /\ game_state \in { GameState(0, c, n) : c \in TickClocks, n \in TickRounds }
    /\ round_state \in { None, start_round(0, <<1, 2>>) }
    /\ terminal_state = None
    /\ player_index = 0
    /\ last = NoLast
    /\ r_phase = "idle"
    /\ r_raises = 0
    /\ pure = NoPure
    /\ pool_size \in 1..MaxWorkers
    /\ script = 1
    /\ m_pc = "check_game"
    /\ RunnerStart

TickNext ==
    \/ MCheckGame
    \/ MCheckRound(BOOLEAN)
    \/ MDropPool
    \/ \E w \in Workers : WTake(w)
    \/ MJoin

SpecTick == TickInit /\ [][TickNext]_vars

\* C18: the end-of-tick test makes the loop return if round_num = 1001 and
\* there is no round, or if the clock is within 0.001 of 0 and round_num > 1;
\* otherwise the loop goes on unless the wall clock has run out (so it does
\* not end on the clock while round_num = 1)
C18_TickStep ==
    (m_pc = "check_round" /\ m_pc' # "check_round") =>
        IF \/ game_state.round_num = 1001 /\ round_state = None
           \/ game_state.game_clock \in {-1, 0, 1} /\ game_state.round_num > 1
        THEN m_pc' = "drop_pool" /\ m_exit' = "over"
        ELSE m_pc' = "exec_recv" \/ (m_pc' = "drop_pool" /\ m_exit' = "timed_out")

C19_QuitReturns == (m_exit = "quit") ~> (m_pc = "done")

\* ------------------------------------------------------------------------
\* cards.rs: cards and their text form.  A text is a sequence of
\* one-character strings (all characters are ASCII, so that str::len counts
\* them).
\* ------------------------------------------------------------------------
CardSuits == { "Spades", "Hearts", "Diamonds", "Clubs" }
CardValues == { "Two", "Three", "Four", "Five", "Six", "Seven", "Eight", "Nine",
                "Ten", "Jack", "Queen", "King", "Ace" }

\* Card::new
Card(suit, value) == [value |-> value, suit |-> suit]

\* Result::Ok, Result::Err(CardConversionError)
Ok(x) == [ok |-> TRUE, val |-> x]
Err(e) == [ok |-> FALSE, err |-> e]

\* str::trim
RECURSIVE trim_start(_)
trim_start(s) == IF s # <<>> /\ Head(s) = " " THEN trim_start(Tail(s)) ELSE s

RECURSIVE trim_end(_)
trim_end(s) ==
    IF s # <<>> /\ s[Len(s)] = " " THEN trim_end(SubSeq(s, 1, Len(s) - 1)) ELSE s

trim(s) == trim_end(trim_start(s))

\* Display for CardSuit
suit_display(suit) ==
    CASE suit = "Hearts" -> <<"h">>
      [] suit = "Diamonds" -> <<"d">>
      [] suit = "Spades" -> <<"s">>
      [] suit = "Clubs" -> <<"c">>

\* FromStr for CardSuit
suit_from_str(text) ==
    LET s == trim(text)
    IN  IF Len(s) > 1 THEN Err("TooLong")
        ELSE IF s = <<>> THEN Err("Empty")
        ELSE CASE s[1] = "h" -> Ok("Hearts")
               [] s[1] = "d" -> Ok("Diamonds")
               [] s[1] = "s" -> Ok("Spades")
               [] s[1] = "c" -> Ok("Clubs")
               [] OTHER -> Err("InvalidSuit")

\* Display for CardValue with the ten written in digits
value_display_ten_in_digits(value) ==
    CASE value = "Two" -> <<"2">> [] value = "Three" -> <<"3">>
      [] value = "Four" -> <<"4">> [] value = "Five" -> <<"5">>
      [] value = "Six" -> <<"6">> [] value = "Seven" -> <<"7">>
      [] value = "Eight" -> <<"8">> [] value = "Nine" -> <<"9">>
      [] value = "Ten" -> <<"1", "0">> [] value = "Jack" -> <<"J">>
      [] value = "Queen" -> <<"Q">> [] value = "King" -> <<"K">>
      [] value = "Ace" -> <<"A">>

\* Display for CardValue
value_display(value) ==
    CASE value = "Two" -> <<"2">> [] value = "Three" -> <<"3">>
      [] value = "Four" -> <<"4">> [] value = "Five" -> <<"5">>
      [] value = "Six" -> <<"6">> [] value = "Seven" -> <<"7">>
      [] value = "Eight" -> <<"8">> [] value = "Nine" -> <<"9">>
      [] value = "Ten" -> <<"T">> [] value = "Jack" -> <<"J">>
      [] value = "Queen" -> <<"Q">> [] value = "King" -> <<"K">>
      [] value = "Ace" -> <<"A">>

\* FromStr for CardValue
value_from_str(text) ==
    LET s == trim(text)
    IN  IF Len(s) > 1 THEN Err("TooLong")
        ELSE IF s = <<>> THEN Err("Empty")
        ELSE CASE s[1] = "2" -> Ok("Two") [] s[1] = "3" -> Ok("Three")
               [] s[1] = "4" -> Ok("Four") [] s[1] = "5" -> Ok("Five")
               [] s[1] = "6" -> Ok("Six") [] s[1] = "7" -> Ok("Seven")
               [] s[1] = "8" -> Ok("Eight") [] s[1] = "9" -> Ok("Nine")
               [] s[1] = "T" -> Ok("Ten") [] s[1] = "J" -> Ok("Jack")
               [] s[1] = "Q" -> Ok("Queen") [] s[1] = "K" -> Ok("King")
               [] s[1] = "A" -> Ok("Ace")
               [] OTHER -> Err("InvalidValue")

\* Display for Card: "{}{}" of value and suit
card_display(card) == value_display(card.value) \o suit_display(card.suit)

\* FromStr for Card
card_from_str(text) ==
    LET s == trim(text)
    IN  IF Len(s) > 2 THEN Err("TooLong")
        ELSE IF Len(s) < 2 THEN Err("NotACard")
        ELSE LET value == value_from_str(<<s[1]>>)
                 suit == suit_from_str(<<s[2]>>)
             IN  IF ~value.ok THEN value
                 ELSE IF ~suit.ok THEN suit
                 ELSE Ok(Card(suit.val, value.val))

\* ------------------------------------------------------------------------
\* SpecCards: a card is displayed and the text parsed back; a text of up to
\* MaxText characters is parsed
\* ------------------------------------------------------------------------
MaxText == 3
TextChars == { "A", "s", "x", " " }

Texts == UNION { [1..n -> TextChars] : n \in 0..MaxText }

CardsInit ==
    /\ pure \in { [done |-> FALSE, kind |-> "card", card |-> Card(s, v)] :
                     s \in CardSuits, v \in CardValues }
               \cup { [done |-> FALSE, kind |-> "text", text |-> t] : t \in Texts }
    /\ CellsInit
    /\ last = NoLast
    /\ r_phase = "idle"
    /\ r_raises = 0
    /\ RunnerIdle

\* format!("{}", card).parse::<Card>()
CardsRoundTrip ==
    /\ ~pure.done /\ pure.kind = "card"
    /\ pure' = [done |-> TRUE, kind |-> "card", card |-> pure.card,
                text |-> card_display(pure.card),
                parsed |-> card_from_str(card_display(pure.card))]
    /\ UNCHANGED <<cells, last, r_phase, r_raises, runner>>

\* text.parse::<Card>()
CardsParse ==
    /\ ~pure.done /\ pure.kind = "text"
    /\ pure' = [done |-> TRUE, kind |-> "text", text |-> pure.text,
                parsed |-> card_from_str(pure.text)]
    /\ UNCHANGED <<cells, last, r_phase, r_raises, runner>>

CardsNext == CardsRoundTrip \/ CardsParse

SpecCards == CardsInit /\ [][CardsNext]_vars

\* C20: for each of the 52 cards, parsing the two-character display of the
\* card yields Ok with the same rank and suit
C20_CardRoundTrip ==
    (pure.done /\ pure.kind = "card") =>
        /\ Len(pure.text) = 2
        /\ pure.parsed = Ok(pure.card)

\* the ten of spades was displayed as Ts and parsed back
C20_Witness ==
    /\ pure.done /\ pure.kind = "card"
    /\ pure.card = Card("Spades", "Ten")
    /\ pure.text = <<"T", "s">>
    /\ pure.parsed.ok

\* ------------------------------------------------------------------------
\* showdown.rs: the showdown engine.  A Vec is a sequence, a HashSet a set.

\* ShowdownEngine.ordering: the standard order of the ranks, low to high
ordering ==
    << "Two", "Three", "Four", "Five", "Six", "Seven", "Eight", "Nine",
       "Ten", "Jack", "Queen", "King", "Ace" >>

\* self.ordering.iter().position(|y| *y == value), counted from 1
position(value) == CHOOSE i \in 1..13 : ordering[i] = value

\* iter().collect::<HashSet<_>>()
collect_set(seq) == { seq[i] : i \in 1..Len(seq) }

\* flat_map(..).collect::<Vec<_>>() of a sequence of sequences
RECURSIVE flatten(_)
flatten(seqs) ==
    IF seqs = <<>> THEN <<>> ELSE Head(seqs) \o flatten(Tail(seqs))

\* fold(vec![], |acc, x| { if !acc.contains(&x) { acc.push(x) }; acc })
RECURSIVE push_unique(_, _)
push_unique(acc, seq) ==
    IF seq = <<>> THEN acc
    ELSE push_unique(IF \E i \in 1..Len(acc) : acc[i] = Head(seq)
                     THEN acc ELSE Append(acc, Head(seq)),
                     Tail(seq))

\* ShowdownEngine::make_hand_unique
make_hand_unique(hand) == push_unique(<<>>, hand)

\* slice::windows(n)
windows(seq, n) ==
    [k \in 1..(IF Len(seq) >= n THEN Len(seq) - n + 1 ELSE 0) |->
        SubSeq(seq, k, k + n - 1)]

\* Vec::dedup: consecutive equal elements collapse into one
RECURSIVE dedup(_)
dedup(seq) ==
    IF Len(seq) < 2 THEN seq
    ELSE IF seq[1] = seq[2] THEN dedup(Tail(seq))
    ELSE <<seq[1]>> \o dedup(Tail(seq))

reverse(seq) == [i \in 1..Len(seq) |-> seq[Len(seq) + 1 - i]]

\* StraightDrawType, in the declared order which derive(Ord) compares by
StraightDrawType == << "Complete", "OpenEnded", "Inside" >>

\* the nested flat_map chain of detect_straights: one card of every bin,
\* the cards of the first bin given varying slowest
RECURSIVE card_products(_)
card_products(bins) ==
    IF bins = <<>> THEN << {} >>
    ELSE LET rest == card_products(Tail(bins))
         IN  flatten([i \in 1..Len(Head(bins)) |->
                 [j \in 1..Len(rest) |-> {Head(bins)[i]} \cup rest[j]]])

\* the fold of the two-hole branch: the run of non-empty bins at the end
RECURSIVE adj_count(_, _)
adj_count(n, bins) ==
    IF bins = <<>> THEN n
    ELSE adj_count(IF Head(bins) # <<>> THEN n + 1 ELSE 0, Tail(bins))

\* the sets of one window, each paired with the draw type
typed(sets, typ) == [i \in 1..Len(sets) |-> [cards |-> sets[i], typ |-> typ]]

\* the closure given to sorted_bins.windows(5).flat_map in detect_straights
straight_window(x) ==
    LET holes == Cardinality({ j \in 1..5 : x[j] = <<>> })
        adjacent_x == SelectSeq(x, LAMBDA bin : bin # <<>>)
        deduped == dedup(x)
    IN  IF holes = 0 THEN
            typed(push_unique(<<>>, card_products(reverse(x))), "Complete")
        ELSE IF holes = 1 THEN
            typed(push_unique(<<>>, card_products(reverse(adjacent_x))),
                  IF x[1] = <<>> \/ x[5] = <<>> THEN "OpenEnded" ELSE "Inside")
        ELSE IF holes = 2 THEN
            IF adj_count(0, deduped) = 3 THEN
                typed(push_unique(<<>>,
                          card_products(reverse(
                              SelectSeq(deduped, LAMBDA bin : bin # <<>>)))),
                      "OpenEnded")
            ELSE <<>>
        ELSE <<>>

\* ShowdownEngine::detect_straights: bins 1..13 by rank, bin 0 the aces again
detect_straights(hand) ==
    LET sorted_bins == [i \in 0..13 |->
            SelectSeq(hand, LAMBDA c :
                position(c.value) = (IF i = 0 THEN 13 ELSE i))]
    IN  flatten([k \in 1..10 |->
            straight_window([j \in 1..5 |-> sorted_bins[k + j - 2]])])

\* the suit bins of detect_flushes, in the order of its match
suit_bins == << "Spades", "Hearts", "Clubs", "Diamonds" >>

\* ShowdownEngine::detect_flushes
detect_flushes(hand) ==
    push_unique(<<>>, flatten([i \in 1..4 |->
        LET bin == SelectSeq(hand, LAMBDA c : c.suit = suit_bins[i])
            kept == SelectSeq(windows(bin, 5), LAMBDA x : Len(x) >= 3)
        IN  [k \in 1..Len(kept) |-> collect_set(kept[k])]]))

\* set.into_iter().collect::<Vec<Card>>() of a set of cards of one rank: the
\* iteration order of a HashSet is not determined by its content, hash_order
\* lists the suits in the order this run yields them
hash_iter(set, hash_order) ==
    LET present == SelectSeq(hash_order, LAMBDA s : \E c \in set : c.suit = s)
    IN  [i \in 1..Len(present) |-> CHOOSE c \in set : c.suit = present[i]]

\* ShowdownEngine::detect_of_a_kind
detect_of_a_kind(hand, number, hash_order) ==
    LET sorted_bins == [i \in 1..13 |->
            SelectSeq(hand, LAMBDA c : position(c.value) = i)]
        potential_oak == SelectSeq(sorted_bins, LAMBDA x : Len(x) >= number)
    IN  flatten([b \in 1..Len(potential_oak) |->
            LET w == windows(hash_iter(collect_set(potential_oak[b]), hash_order),
                             number)
            IN  [k \in 1..Len(w) |-> collect_set(w[k])]])

\* enum Hand: a made hand, its kind and its card set
Hand(kind, cards) == [kind |-> kind, cards |-> cards]

\* the kinds of Hand in the order compare_hands ranks them, best first
HandKinds ==
    << "RoyalFlush", "StraightFlush", "FourOfAKind", "FullHouse", "Flush",
       "Straight", "ThreeOfAKind", "TwoPair", "Pair" >>

\* enum PotentialHand
PotentialHand_Hand(hand) == [variant |-> "Hand", hand |-> hand]
StraightDraw(cards, typ) == [variant |-> "StraightDraw", cards |-> cards, typ |-> typ]
FlushDraw(cards) == [variant |-> "FlushDraw", cards |-> cards]
StraightFlushDraw(cards, typ) ==
    [variant |-> "StraightFlushDraw", cards |-> cards, typ |-> typ]
RoyalFlushDraw(cards, typ) ==
    [variant |-> "RoyalFlushDraw", cards |-> cards, typ |-> typ]
HighCard(card) == [variant |-> "HighCard", card |-> card]

\* PotentialHand::cards
potential_cards(p) ==
    CASE p.variant = "Hand" -> p.hand.cards
      [] p.variant = "HighCard" -> {p.card}
      [] OTHER -> p.cards

\* an Ord::cmp that never answers Equal
cmp_never_equal(a, b) == IF a < b THEN "Less" ELSE "Greater"

\* Ord::cmp on integers
cmp(a, b) == IF a < b THEN "Less" ELSE IF a = b THEN "Equal" ELSE "Greater"

\* ShowdownEngine::value_order
value_order(a, b) == cmp(position(a), position(b))

\* ShowdownEngine::highest_card on a Vec: max_by keeps the last of the maxima
highest_card(hand) ==
    LET top == CHOOSE p \in { position(hand[i].value) : i \in 1..Len(hand) } :
                   \A i \in 1..Len(hand) : position(hand[i].value) <= p
        at == CHOOSE i \in 1..Len(hand) :
                   /\ position(hand[i].value) = top
                   /\ \A j \in (i + 1)..Len(hand) : position(hand[j].value) # top
    IN  hand[at]

\* ShowdownEngine::highest_card_value on a HashSet: every maximum has the
\* same value whatever the iteration order
highest_card_value(cards) ==
    ordering[CHOOSE p \in { position(c.value) : c \in cards } :
                 \A c \in cards : position(c.value) <= p]

\* a compare_hands that looks at the highest rank only
compare_hands_top_rank_only(a, b) ==
    value_order(highest_card_value(a.cards), highest_card_value(b.cards))

\* ShowdownEngine::compare_hands
compare_hands(a, b) ==
    LET kind_index(k) == CHOOSE i \in 1..Len(HandKinds) : HandKinds[i] = k
        resolve_conflict(x, y) ==
            value_order(highest_card_value(x), highest_card_value(y))
    IN  IF a.kind = b.kind THEN resolve_conflict(a.cards, b.cards)
        ELSE IF kind_index(b.kind) < kind_index(a.kind) THEN "Less"
        ELSE "Greater"

\* derive(Ord) for StraightDrawType: typ.cmp(best_typ)
typ_cmp(typ, best_typ) ==
    LET index(t) == CHOOSE i \in 1..Len(StraightDrawType) : StraightDrawType[i] = t
    IN  cmp(index(typ), index(best_typ))

\* a compare_potential_hands that looks at the highest rank carried only
compare_potential_hands_by_cards(a, b) ==
    value_order(highest_card_value(potential_cards(a)),
                highest_card_value(potential_cards(b)))

\* ShowdownEngine::compare_potential_hands
compare_potential_hands(a, b) ==
    LET by_value == value_order(highest_card_value(a.cards),
                                highest_card_value(b.cards))
        by_len == cmp(Cardinality(a.cards), Cardinality(b.cards))
    IN  CASE a.variant = "Hand" ->
               IF b.variant = "Hand" THEN compare_hands(a.hand, b.hand)
               ELSE "Greater"
          [] a.variant = "RoyalFlushDraw" ->
               IF b.variant = "Hand" THEN "Less"
               ELSE IF b.variant = "RoyalFlushDraw" THEN
                   IF typ_cmp(a.typ, b.typ) = "Equal" THEN by_value
                   ELSE typ_cmp(a.typ, b.typ)
               ELSE "Greater"
          [] a.variant = "StraightFlushDraw" ->
               IF b.variant \in {"Hand", "RoyalFlushDraw"} THEN "Less"
               ELSE IF b.variant = "StraightFlushDraw" THEN
                   IF typ_cmp(a.typ, b.typ) = "Equal" THEN by_value
                   ELSE typ_cmp(a.typ, b.typ)
               ELSE "Greater"
          [] a.variant = "FlushDraw" ->
               IF b.variant \in {"Hand", "RoyalFlushDraw", "StraightFlushDraw"}
               THEN "Less"
               ELSE IF b.variant = "FlushDraw" THEN
                   IF by_len = "Equal" THEN by_value ELSE by_len
               ELSE "Greater"
          [] a.variant = "StraightDraw" ->
               IF b.variant \in {"Hand", "RoyalFlushDraw", "StraightFlushDraw",
                                 "FlushDraw"}
               THEN "Less"
               ELSE IF b.variant = "StraightDraw" THEN
                   IF by_len = "Equal" THEN
                       IF typ_cmp(a.typ, b.typ) = "Equal" THEN by_value
                       ELSE typ_cmp(a.typ, b.typ)
                   ELSE by_len
               ELSE "Greater"
          [] a.variant = "HighCard" ->
               IF b.variant = "HighCard" THEN value_order(a.card.value, b.card.value)
               ELSE "Less"

\* iter().map(f).collect::<Vec<_>>()
seq_map(f(_), seq) == [i \in 1..Len(seq) |-> f(seq[i])]

\* straights.sort_unstable_by(|a, b| b.len().cmp(&a.len())): longest first;
\* the slices sorted here are short enough to be sorted by insertion, which
\* leaves sets of equal length in their order
sort_by_len_desc(straights) ==
    flatten([k \in 1..5 |->
        SelectSeq(straights, LAMBDA s : Cardinality(s.cards) = 6 - k)])

\* the closing fold of potential_hands: a hand is kept unless every card of
\* it was already carried by the hands before it
RECURSIVE keep_unseen(_, _, _)
keep_unseen(hands, seen, rest) ==
    IF rest = <<>> THEN hands
    ELSE LET cards == potential_cards(Head(rest))
         IN  keep_unseen(IF cards \subseteq seen THEN hands
                         ELSE Append(hands, Head(rest)),
                         seen \cup cards, Tail(rest))

\* ShowdownEngine::potential_hands
potential_hands(hand, with_straights, hash_order) ==
    LET detected_straights == IF with_straights THEN detect_straights(hand) ELSE <<>>
        detected_flushes == detect_flushes(hand)
        detected_straight_flushes ==
            SelectSeq(detected_straights, LAMBDA s :
                \E i \in 1..Len(detected_flushes) : detected_flushes[i] = s.cards)
        detected_four == detect_of_a_kind(hand, 4, hash_order)
        detected_three == detect_of_a_kind(hand, 3, hash_order)
        detected_pairs == detect_of_a_kind(hand, 2, hash_order)
        best_hand ==
            UNION ({ detected_straights[i].cards : i \in 1..Len(detected_straights) }
                   \cup collect_set(detected_flushes) \cup collect_set(detected_four)
                   \cup collect_set(detected_three) \cup collect_set(detected_pairs))
        in_best(x) == x \subseteq best_hand
        pairs == SelectSeq(detected_pairs, in_best)
        toaks == SelectSeq(detected_three, in_best)
        foaks == SelectSeq(detected_four, in_best)
        straight_flushes ==
            SelectSeq(detected_straight_flushes, LAMBDA s : in_best(s.cards))
        covered(x) ==
            \E i \in 1..Len(straight_flushes) : x \subseteq straight_flushes[i].cards
        straights ==
            sort_by_len_desc(SelectSeq(detected_straights, LAMBDA s :
                in_best(s.cards) /\ ~covered(s.cards)))
        flushes == SelectSeq(detected_flushes, LAMBDA f : in_best(f) /\ ~covered(f))
        of_window(w) ==
            LET two == << pairs[w], pairs[w + 1] >>
            IN  seq_map(LAMBDA x : Hand("FourOfAKind", x), foaks)
                \o flatten(seq_map(LAMBDA toak :
                       LET toak_value == (CHOOSE c \in toak : TRUE).value
                           possible_full_house_pairs ==
                               SelectSeq(two, LAMBDA x :
                                   ~ \E card \in x : card.value = toak_value)
                       IN  IF Len(possible_full_house_pairs) > 0
                           THEN seq_map(LAMBDA pair : Hand("FullHouse", toak \cup pair),
                                        possible_full_house_pairs)
                           ELSE << Hand("ThreeOfAKind", toak) >>,
                       toaks))
                \o << Hand("TwoPair", two[1] \cup two[2]),
                      Hand("Pair", two[1]), Hand("Pair", two[2]) >>
        not_straight_flush_winning_hand ==
            IF Len(pairs) = 0 THEN <<>>
            ELSE IF Len(pairs) > 1
                 THEN flatten([w \in 1..(Len(pairs) - 1) |-> of_window(w)])
                 ELSE << Hand("Pair", pairs[1]) >>
        royal(cards) == highest_card_value(cards) = ordering[13]
        royal_draw(cards) ==
            highest_card_value(cards) \in { ordering[13], ordering[12] }
        chain ==
            seq_map(LAMBDA s : PotentialHand_Hand(
                        Hand(IF royal(s.cards) THEN "RoyalFlush" ELSE "StraightFlush",
                             s.cards)),
                    SelectSeq(straight_flushes, LAMBDA s : Cardinality(s.cards) = 5))
            \o seq_map(PotentialHand_Hand,
                   SelectSeq(not_straight_flush_winning_hand, LAMBDA wh :
                       wh.kind \in {"FourOfAKind", "FullHouse"}))
            \o seq_map(LAMBDA f : PotentialHand_Hand(Hand("Flush", f)),
                   SelectSeq(flushes, LAMBDA f : Cardinality(f) = 5))
            \o seq_map(LAMBDA s : PotentialHand_Hand(Hand("Straight", s.cards)),
                   SelectSeq(straights, LAMBDA s : s.typ = "Complete"))
            \o seq_map(PotentialHand_Hand, not_straight_flush_winning_hand)
            \o seq_map(LAMBDA s : IF royal_draw(s.cards)
                                  THEN RoyalFlushDraw(s.cards, s.typ)
                                  ELSE StraightFlushDraw(s.cards, s.typ),
                   SelectSeq(straight_flushes, LAMBDA s : s.typ # "Complete"))
            \o seq_map(FlushDraw, SelectSeq(flushes, LAMBDA f : Cardinality(f) > 5))
            \o seq_map(LAMBDA s : StraightDraw(s.cards, s.typ),
                   SelectSeq(straights, LAMBDA s : s.typ # "Complete"))
    IN  IF best_hand # {} THEN keep_unseen(<<>>, {}, chain) ELSE <<>>

\* the process_hands! fold: max_by keeps the later of two equal hands
RECURSIVE process_hands(_, _)
process_hands(best_hand, hands) ==
    IF hands = <<>> THEN best_hand
    ELSE process_hands(
             IF best_hand = None THEN Head(hands)
             ELSE IF compare_potential_hands(best_hand, Head(hands)) = "Greater"
                  THEN best_hand ELSE Head(hands),
             Tail(hands))

\* ShowdownEngine::process_hand
process_hand(hand, hash_order) ==
    LET unique == make_hand_unique(hand)
        best == process_hands(None, potential_hands(unique, TRUE, hash_order))
    IN  IF best = None THEN HighCard(highest_card(unique)) ELSE best

\* ------------------------------------------------------------------------
\* SpecShowdown: process_hand on hands dealt in any order from small decks

\* the most cards dealt into one hand
MaxHand == 6

\* the cards of one suit at the given places of the ordering
suited(suit, places) == { Card(suit, ordering[p]) : p \in places }

\* the decks hands are dealt from: the ten suited straights (the wheel
\* first), six suited cards two ranks apart, four suited cards three ranks
\* apart with a king, 9 J Q K A suited, 5 to 9 in three suits, three fives
\* with two sixes, four fives with a six
ShowdownDecks ==
    { suited("Spades", { IF b = 0 THEN 13 ELSE b : b \in (k - 1)..(k + 3) }) :
          k \in 1..10 }
    \cup { suited("Spades", {1, 3, 5, 7, 9, 11}),
           suited("Spades", {1, 4, 7, 10}) \cup suited("Hearts", {12}),
           suited("Hearts", {8, 10, 11, 12, 13}),
           suited("Spades", {4, 7}) \cup suited("Hearts", {5, 8})
               \cup suited("Diamonds", {6}),
           suited("Spades", {4, 5}) \cup suited("Hearts", {4, 5})
               \cup suited("Diamonds", {4}),
           suited("Spades", {4, 5}) \cup suited("Hearts", {4})
               \cup suited("Diamonds", {4}) \cup suited("Clubs", {4}) }

\* the orders in which the sets of one call may yield the suits of a hand
hash_orders(hand) ==
    LET suits == { hand[i].suit : i \in 1..Len(hand) }
    IN  { o \in [1..Cardinality(suits) -> suits] :
            \A i, j \in 1..Cardinality(suits) : o[i] = o[j] => i = j }

ShowdownInit ==
    /\ pure \in { [stage |-> "deal", deck |-> d, hand |-> <<>>] : d \in ShowdownDecks }
    /\ CellsInit
    /\ last = NoLast
    /\ r_phase = "idle"
    /\ r_raises = 0
    /\ RunnerIdle

\* the caller puts one more card, not yet in the hand, at the end of the slice
ShowdownDeal ==
    /\ pure.stage = "deal"
    /\ Len(pure.hand) < MaxHand
    /\ \E card \in pure.deck :
        /\ \A i \in 1..Len(pure.hand) : pure.hand[i] # card
        /\ pure' = [pure EXCEPT !.hand = Append(@, card)]
    /\ UNCHANGED <<cells, last, r_phase, r_raises, runner>>

\* engine.process_hand(&hand)
ShowdownProcess ==
    /\ pure.stage = "deal"
    /\ pure.hand # <<>>
    /\ \E hash_order \in hash_orders(pure.hand) :
        pure' = [stage |-> "done", deck |-> pure.deck, hand |-> pure.hand,
                 out |-> process_hand(pure.hand, hash_order)]
    /\ UNCHANGED <<cells, last, r_phase, r_raises, runner>>

\* engine.process_hand on the same cards with two neighbours exchanged
ShowdownProcessSwapped ==
    /\ pure.stage = "done"
    /\ \E i \in 1..(Len(pure.hand) - 1), hash_order \in hash_orders(pure.hand) :
        LET swapped == [pure.hand EXCEPT ![i] = pure.hand[i + 1],
                                         ![i + 1] = pure.hand[i]]
        IN  pure' = [stage |-> "swapped", deck |-> pure.deck, hand |-> pure.hand,
                     out |-> pure.out, swapped |-> swapped,
                     swapped_out |-> process_hand(swapped, hash_order)]
    /\ UNCHANGED <<cells, last, r_phase, r_raises, runner>>

ShowdownNext == ShowdownDeal \/ ShowdownProcess \/ ShowdownProcessSwapped

SpecShowdown == ShowdownInit /\ [][ShowdownNext]_vars

\* the places in the ordering (1 for the lowest rank) of the ranks of a hand
places_of(hand) == { position(hand[i].value) : i \in 1..Len(hand) }

\* the ten sets of five consecutive ranks, the ace counting low in the wheel
StraightPlaces ==
    { { IF b = 0 THEN 13 ELSE b : b \in lo..(lo + 4) } : lo \in 0..9 }

processed == pure.stage \in {"done", "swapped"}

\* C21: with the standard ordering, process_hand on five cards of one suit
\* that form a complete straight returns Hand(RoyalFlush) of those cards
\* exactly when the straight is T-J-Q-K-A and Hand(StraightFlush) of them for
\* every other straight, the wheel A-2-3-4-5 included
C21_StraightFlushKinds ==
    ( /\ processed
      /\ Len(pure.hand) = 5
      /\ \A i \in 1..5 : pure.hand[i].suit = pure.hand[1].suit
      /\ places_of(pure.hand) \in StraightPlaces )
    => pure.out = PotentialHand_Hand(
           Hand(IF places_of(pure.hand) = 9..13 THEN "RoyalFlush"
                ELSE "StraightFlush",
                collect_set(pure.hand)))

\* C26: for every deduplicated list of 2 to 7 cards, process_hand returns the
\* same PotentialHand (variant, draw type and card set) for every permutation
\* of the list; exchanges of two neighbours generate all of them
C26_PermutationInvariant ==
    (pure.stage = "swapped" /\ Len(pure.hand) >= 2)
    => pure.swapped_out = pure.out

\* the places of the ranks of a set of cards
places_in(cards) == { position(c.value) : c \in cards }

\* C27: process_hand on a deduplicated input that holds exactly four cards of
\* one suit, no two cards of equal rank, and no window of five consecutive
\* ranks with three or more ranks present returns FlushDraw carrying those
\* four cards
C27_FlushDraw ==
    \A suit \in CardSuits :
        LET of_suit == { c \in collect_set(pure.hand) : c.suit = suit }
        IN  ( /\ processed
              /\ Len(pure.hand) >= 2
              /\ Cardinality(of_suit) = 4
              /\ Cardinality(places_of(pure.hand)) = Len(pure.hand)
              /\ \A w \in StraightPlaces :
                     Cardinality(w \cap places_of(pure.hand)) < 3 )
            => pure.out = FlushDraw(of_suit)

\* C28: for a deduplicated input of 2 to 7 cards process_hand never returns
\* a StraightDraw, StraightFlushDraw or RoyalFlushDraw that carries fewer
\* than four cards or spans a window of five ranks with two ranks missing
C28_NoBackdoorDraw ==
    ( /\ processed
      /\ Len(pure.hand) >= 2
      /\ pure.out.variant \in {"StraightDraw", "StraightFlushDraw", "RoyalFlushDraw"} )
    => /\ Cardinality(pure.out.cards) >= 4
       /\ \E w \in StraightPlaces :
              Cardinality(w \cap places_in(pure.out.cards)) = 4

\* ------------------------------------------------------------------------
\* SpecCompare: compare_potential_hands and compare_hands on three hands

\* card sets to carry: 5-6-7-8 of spades, 5-6-8-9 of hearts, 6-7-8 of spades
CompareSets ==
    { suited("Spades", {4, 5, 6, 7}), suited("Hearts", {4, 5, 7, 8}),
      suited("Spades", {5, 6, 7}) }

\* inputs whose process_hand is compared: pair, two pair, high card, a
\* straight, an open-ended and an inside draw of four, a run of three
CompareInputs ==
    { << Card("Spades", "Five"), Card("Hearts", "Five"), Card("Spades", "Nine") >>,
      << Card("Spades", "Five"), Card("Hearts", "Five"), Card("Spades", "Nine"),
         Card("Hearts", "Nine") >>,
      << Card("Spades", "Five"), Card("Hearts", "King"), Card("Spades", "Nine") >>,
      << Card("Spades", "Five"), Card("Hearts", "Six"), Card("Spades", "Seven"),
         Card("Hearts", "Eight"), Card("Hearts", "Nine") >>,
      << Card("Spades", "Five"), Card("Spades", "Six"), Card("Spades", "Seven"),
         Card("Spades", "Eight") >>,
      << Card("Hearts", "Five"), Card("Hearts", "Six"), Card("Hearts", "Eight"),
         Card("Hearts", "Nine") >>,
      << Card("Spades", "Six"), Card("Spades", "Seven"), Card("Spades", "Eight") >> }

\* the values compared: what process_hand returns for CompareInputs, and
\* values of every variant, kind and draw type built on CompareSets
PotentialHands ==
    { process_hand(hand, hash_order) :
          hand \in CompareInputs, hash_order \in { <<"Spades", "Hearts">> } }
    \cup { PotentialHand_Hand(Hand(HandKinds[k], x)) :
               k \in 1..Len(HandKinds),
               x \in { x \in CompareSets : Cardinality(x) = 4 } }
    \cup { RoyalFlushDraw(x, typ) :
               x \in { x \in CompareSets : Cardinality(x) = 4 },
               typ \in {"OpenEnded", "Inside"} }
    \cup { StraightFlushDraw(x, typ) :
               x \in { x \in CompareSets : Cardinality(x) = 4 },
               typ \in {"OpenEnded", "Inside"} }
    \cup { StraightDraw(x, StraightDrawType[t]) :
               x \in CompareSets, t \in 1..Len(StraightDrawType) }
    \cup { FlushDraw(x) : x \in CompareSets }
    \cup { HighCard(Card("Spades", "Nine")), HighCard(Card("Hearts", "King")) }

CompareInit ==
    /\ pure \in { [stage |-> "chosen", a |-> a, b |-> b, c |-> c] :
                      a \in PotentialHands, b \in PotentialHands,
                      c \in PotentialHands }
    /\ CellsInit
    /\ last = NoLast
    /\ r_phase = "idle"
    /\ r_raises = 0
    /\ RunnerIdle

\* engine.compare_potential_hands on the pairs of a, b and c, and
\* engine.compare_hands on a and b when both are made hands
Compare ==
    /\ pure.stage = "chosen"
    /\ pure' = [stage |-> "compared", a |-> pure.a, b |-> pure.b, c |-> pure.c,
                aa |-> compare_potential_hands(pure.a, pure.a),
                ab |-> compare_potential_hands(pure.a, pure.b),
                ba |-> compare_potential_hands(pure.b, pure.a),
                bc |-> compare_potential_hands(pure.b, pure.c),
                ac |-> compare_potential_hands(pure.a, pure.c),
                hands_ab |-> IF pure.a.variant = "Hand" /\ pure.b.variant = "Hand"
                             THEN compare_hands(pure.a.hand, pure.b.hand)
                             ELSE "None"]
    /\ UNCHANGED <<cells, last, r_phase, r_raises, runner>>

CompareNext == Compare

SpecCompare == CompareInit /\ [][CompareNext]_vars

compared == pure.stage = "compared"

\* the result one Ordering is answered with when the operands are exchanged
opposite(o) ==
    CASE o = "Less" -> "Greater" [] o = "Greater" -> "Less" [] OTHER -> o

\* the result of comparing two numbers
by_number(x, y) == IF x < y THEN "Less" ELSE IF x > y THEN "Greater" ELSE "Equal"

\* C22: the draw-quality order used by compare_potential_hands is
\* Complete < Inside < OpenEnded: between two draws of the same family and
\* the same card count the draw types decide, so an OpenEnded draw compares
\* Greater than an Inside draw whatever their top ranks
C22_DrawQuality ==
    LET quality == [Complete |-> 1, Inside |-> 2, OpenEnded |-> 3]
    IN  ( /\ compared
          /\ pure.a.variant \in {"StraightDraw", "StraightFlushDraw", "RoyalFlushDraw"}
          /\ pure.b.variant = pure.a.variant
          /\ Cardinality(pure.a.cards) = Cardinality(pure.b.cards)
          /\ pure.a.typ # pure.b.typ )
        => pure.ab = by_number(quality[pure.a.typ], quality[pure.b.typ])

\* the highest place in the ordering among the ranks of a card set
top_place(cards) ==
    CHOOSE p \in places_in(cards) : \A q \in places_in(cards) : q <= p

\* C23: compare_hands orders made hands first by category, RoyalFlush >
\* StraightFlush > FourOfAKind > FullHouse > Flush > Straight > ThreeOfAKind
\* > TwoPair > Pair, and two hands of one category by the place in the
\* ordering of the highest rank of their card sets, Equal when those are equal
C23_MadeHandOrder ==
    LET category == [RoyalFlush |-> 9, StraightFlush |-> 8, FourOfAKind |-> 7,
                     FullHouse |-> 6, Flush |-> 5, Straight |-> 4,
                     ThreeOfAKind |-> 3, TwoPair |-> 2, Pair |-> 1]
        a == pure.a.hand
        b == pure.b.hand
    IN  (compared /\ pure.a.variant = "Hand" /\ pure.b.variant = "Hand")
        => pure.hands_ab =
               IF a.kind # b.kind
               THEN by_number(category[a.kind], category[b.kind])
               ELSE by_number(top_place(a.cards), top_place(b.cards))

\* a flush of 5-6-7-8 was compared Greater than a straight topped by a nine
C23_Witness ==
    /\ compared
    /\ pure.a = PotentialHand_Hand(Hand("Flush", suited("Spades", {4, 5, 6, 7})))
    /\ pure.b = PotentialHand_Hand(Hand("Straight", suited("Hearts", {4, 5, 7, 8})))
    /\ pure.hands_ab = "Greater"

\* C24: compare_potential_hands ranks the variants Hand > RoyalFlushDraw >
\* StraightFlushDraw > FlushDraw > StraightDraw > HighCard: when a and b are
\* of different variants this chain alone decides, whatever their cards and
\* draw types
C24_VariantChain ==
    LET chain == [Hand |-> 6, RoyalFlushDraw |-> 5, StraightFlushDraw |-> 4,
                  FlushDraw |-> 3, StraightDraw |-> 2, HighCard |-> 1]
    IN  (compared /\ pure.a.variant # pure.b.variant)
        => pure.ab = by_number(chain[pure.a.variant], chain[pure.b.variant])

\* a flush draw of three low cards was compared Greater than an open-ended
\* straight draw of four topped by a nine
C24_Witness ==
    /\ compared
    /\ pure.a = FlushDraw(suited("Spades", {5, 6, 7}))
    /\ pure.b = StraightDraw(suited("Hearts", {4, 5, 7, 8}), "OpenEnded")
    /\ pure.ab = "Greater"

\* C25: over the PotentialHand values a, b, c that 2 to 7 deduplicated cards
\* can give, compare_potential_hands is a total preorder: cmp(a,a) is Equal,
\* cmp(a,b) is the reverse of cmp(b,a), and cmp(a,b) # Less with
\* cmp(b,c) # Less implies cmp(a,c) # Less
C25_TotalPreorder ==
    compared =>
        /\ pure.aa = "Equal"
        /\ pure.ab = opposite(pure.ba)
        /\ (pure.ab # "Less" /\ pure.bc # "Less") => pure.ac # "Less"

\* what process_hand gave for a pair of fives, for 5-6-7-8 and for king high
\* were compared, each Greater than the next
C25_Witness ==
    /\ compared
    /\ pure.a = process_hand(<< Card("Spades", "Five"), Card("Hearts", "Five"),
                                Card("Spades", "Nine") >>, <<"Spades", "Hearts">>)
    /\ pure.b = process_hand(<< Card("Spades", "Five"), Card("Spades", "Six"),
                                Card("Spades", "Seven"), Card("Spades", "Eight") >>,
                             <<"Spades", "Hearts">>)
    /\ pure.c = process_hand(<< Card("Spades", "Five"), Card("Hearts", "King"),
                                Card("Spades", "Nine") >>, <<"Spades", "Hearts">>)
    /\ pure.ab = "Greater" /\ pure.bc = "Greater" /\ pure.ac = "Greater"

\* C29: the responder maps the agent's answer so: Raise(n) is kept iff RAISE
\* is legal and raise_bounds()[0] < n < raise_bounds()[1], otherwise it
\* becomes Check if CHECK is legal and Call if not; Check is kept iff CHECK
\* is legal, else it becomes Fold; Call and Fold each become Check if CHECK
\* is legal and are otherwise kept
C29_ResponderMapping ==
    LET can_check == "CHECK" \in pure.legal
        inside == /\ pure.bounds[1] < pure.bot.amt
                  /\ pure.bot.amt < pure.bounds[2]
    IN  pure.done =>
            pure.wire =
                CASE pure.bot.kind = "Raise" ->
                        IF "RAISE" \in pure.legal /\ inside THEN pure.bot
                        ELSE IF can_check THEN Check ELSE Call
                  [] pure.bot.kind = "Check" ->
                        IF can_check THEN Check ELSE Fold
                  [] pure.bot.kind \in {"Call", "Fold"} ->
                        IF can_check THEN Check ELSE pure.bot

\* the agent raised to the lower end of raise_bounds where RAISE is legal and
\* CHECK is not, and the responder sent Call
C29_Witness ==
    /\ pure.done
    /\ pure.bot.kind = "Raise"
    /\ "RAISE" \in pure.legal
    /\ "CHECK" \notin pure.legal
    /\ pure.bot.amt = pure.bounds[1]
    /\ pure.bounds[1] < pure.bounds[2]
    /\ pure.wire = Call

\* the threads holding a guard that thread t is polling for in
\* poll_until_read, poll_until_write or lock_device
spins_on(t) ==
    ({Main} \cup Workers) \cap
    ( IF t = Main
      THEN CASE m_pc = "lock_socket" -> {socket}
             [] m_pc = "check_game" -> {game_lock.w}
             [] m_pc = "check_round" -> {round_lock.w}
             [] OTHER -> {}
      ELSE CASE w_pc[t] \in {"recv_lock", "resp_socket"} -> {socket}
             [] w_pc[t] = "disp_round" -> {round_lock.w} \cup round_lock.r
             [] w_pc[t] = "disp_game" ->
                    {game_lock.w, bot_lock} \cup game_lock.r
             [] w_pc[t] = "resp_round" -> {round_lock.w}
             [] w_pc[t] = "resp_game" -> {game_lock.w}
             [] w_pc[t] = "resp_act" -> {bot_lock}
             [] OTHER -> {} )

\* C30: with the main loop, a dispatch job and a respond job running
\* concurrently and agent callbacks that always return, no state is reachable
\* in which two threads each spin forever on a guard (socket, round, game,
\* terminal, bot, event queue) held by the other
C30_NoMutualSpin ==
    \A s \in {Main} \cup Workers, t \in {Main} \cup Workers :
        ~ (s # t /\ t \in spins_on(s) /\ s \in spins_on(t))

\* ------------------------------------------------------------------------
\* SpecProceed: RoundState::proceed and RoundState::proceed_street on round
\* states of every button, street and board length with small pips and stacks

\* the streets and boards of the states proceed is applied to; the board may
\* be longer than the street says, as when UpdateDeck came first
ProceedStreets == {0, 3, 5}
ProceedDecks == { <<>>, <<5, 6, 7>>, <<5, 6, 7, 8, 9>> }

ProceedRounds ==
    { RoundState(b, st, Pair(p0, p1), Pair(s0, s1),
                 Pair(CardHand(<<1, 2>>), None), d, None) :
        b \in 0..3, st \in ProceedStreets, d \in ProceedDecks,
        p0 \in 0..MaxChip, p1 \in 0..MaxChip,
        s0 \in 0..MaxChip, s1 \in 0..MaxChip }

ProceedInit ==
    /\ round_state \in ProceedRounds
    /\ game_state = game_state_init
    /\ terminal_state = None
    /\ player_index = 0
    /\ last = NoLast
    /\ r_phase = "idle"
    /\ r_raises = 0
    /\ pure = NoPure
    /\ RunnerIdle

\* round_state.proceed(action), and proceed(action) once more on a round
\* state it returns; only where no u32 subtraction underflows
ProceedApply ==
    /\ ~pure.done
    /\ \E action \in BotActions(2 * MaxChip) :
        /\ SubtractionsInRange(round_state, action)
        /\ LET out == proceed(round_state, action)
           IN  pure' = [done |-> TRUE, op |-> "proceed", action |-> action,
                        out |-> out,
                        again |-> IF out.tag = "Round"
                                     /\ SubtractionsInRange(out, action)
                                  THEN proceed(out, action) ELSE None]
    /\ UNCHANGED <<cells, last, r_phase, r_raises, runner>>

\* round_state.proceed_street()
ProceedStreet ==
    /\ ~pure.done
    /\ pure' = [done |-> TRUE, op |-> "proceed_street",
                out |-> proceed_street(round_state)]
    /\ UNCHANGED <<cells, last, r_phase, r_raises, runner>>

ProceedNext == ProceedApply \/ ProceedStreet

SpecProceed == ProceedInit /\ [][ProceedNext]_vars

\* C31: proceed(Call) with button == 0 yields the round state {button 1,
\* street 0, pips [2,2], stacks [198,198]} with hands and deck kept and the
\* street not advanced; with button > 0 it moves cc = pips[1-active] -
\* pips[active] chips from the active seat's stack to its pip, increments
\* button, and applies proceed_street to that state
C31_Call ==
    LET rs == round_state
        a == rs.button % 2
        cc == rs.pips[1 - a] - rs.pips[a]
        moved == [rs EXCEPT !.button = rs.button + 1,
                            !.pips[a] = rs.pips[a] + cc,
                            !.stacks[a] = rs.stacks[a] - cc,
                            !.previous = rs]
    IN  (pure.done /\ pure.op = "proceed" /\ pure.action = Call)
        => IF rs.button = 0
           THEN pure.out = [tag |-> "Round", button |-> 1, street |-> 0,
                            pips |-> Pair(2, 2), stacks |-> Pair(198, 198),
                            hands |-> rs.hands, deck |-> rs.deck,
                            previous |-> rs]
           ELSE pure.out = proceed_street(moved)

\* a call of a bet at button 1 before street 5: the chips moved and the next
\* street began
C31_Witness ==
    /\ pure.done /\ pure.op = "proceed" /\ pure.action = Call
    /\ round_state.button = 1
    /\ round_state.street = 3
    /\ round_state.pips = Pair(2, 0)
    /\ pure.out.tag = "Round"
    /\ pure.out.button = 1
    /\ pure.out.previous.pips = Pair(2, 2)
    /\ pure.out.stacks[1] = round_state.stacks[1] - 2

\* C32: proceed(Check) applies proceed_street exactly when (street == 0 and
\* button > 0) or button > 1; otherwise it yields the same state with
\* button + 1 and pips, stacks, street, hands and deck unchanged; two
\* consecutive pre-flop checks move button 0 to 1 and then advance the street
C32_Check ==
    LET rs == round_state
        both_acted == (rs.street = 0 /\ rs.button > 0) \/ rs.button > 1
    IN  (pure.done /\ pure.op = "proceed" /\ pure.action = Check)
        => /\ both_acted => pure.out = proceed_street(rs)
           /\ ~both_acted =>
                /\ pure.out.tag = "Round"
                /\ pure.out.button = rs.button + 1
                /\ pure.out.pips = rs.pips
                /\ pure.out.stacks = rs.stacks
                /\ pure.out.street = rs.street
                /\ pure.out.hands = rs.hands
                /\ pure.out.deck = rs.deck
           /\ (rs.street = 0 /\ rs.button = 0) =>
                /\ pure.out.button = 1 /\ pure.out.street = 0
                /\ pure.again = proceed_street(pure.out)

\* a first check after the flop that only passes the turn, with chips in the
\* pips that a new street would have cleared
C32_Witness ==
    /\ pure.done /\ pure.op = "proceed" /\ pure.action = Check
    /\ round_state.street = 3
    /\ round_state.button = 1
    /\ round_state.pips = Pair(1, 1)
    /\ pure.out.tag = "Round"
    /\ pure.out.button = 2
    /\ pure.out.pips = Pair(1, 1)
    /\ pure.again.tag = "Round"
    /\ pure.again.button = 1
    /\ pure.again.pips = Pair(0, 0)

C34_StartRound ==
    (last.outcome \in {"ok", "err"} /\ last.tok.tag = "H") =>
        LET s == last.pre_index
            new == [tag |-> "Round", button |-> 0, street |-> 0,
                    pips |-> Pair(1, 2), stacks |-> Pair(199, 198),
                    hands |-> [i \in Seats |->
                                  IF i = s THEN CardHand(last.tok.cards)
                                           ELSE None],
                    deck |-> <<>>, previous |-> None]
        IN  /\ last.call = [cb |-> "new_round", game |-> last.pre_game,
                            arg |-> new, seat |-> s]
            /\ last.outcome = "ok" => round_state = new
            /\ game_state = last.pre_game

\* a StartRound applied for seat 1 while a round that has seen an action is
\* held: the stored round is the fresh one
C34_Witness ==
    /\ last.outcome = "ok" /\ last.tok.tag = "H"
    /\ last.pre_index = 1
    /\ last.pre_round # None
    /\ last.pre_round.button > 0
    /\ round_state.button = 0
    /\ round_state.hands[1] = CardHand(last.tok.cards)
    /\ round_state.hands[0] = None

\* C35: applying Reveal(h) with a round held and seat s stores a
\* TerminalState with deltas [0,0] whose previous has hands[1-s] = h and
\* button, street, pips, stacks, deck, own hand and previous chain equal to
\* the current round's; the TerminalState passed to round_over by the Delta
\* that follows carries that revealed hand
C35_Reveal ==
    /\ []( (last.outcome = "ok" /\ last.tok.tag = "O") =>
             LET s == last.pre_index
                 cur == last.pre_round
             IN  /\ terminal_state.tag = "Terminal"
                 /\ terminal_state.deltas = Pair(0, 0)
                 /\ terminal_state.previous.tag = "Round"
                 /\ terminal_state.previous.hands[1 - s] = CardHand(last.tok.cards)
                 /\ terminal_state.previous.hands[s] = cur.hands[s]
                 /\ terminal_state.previous.button = cur.button
                 /\ terminal_state.previous.street = cur.street
                 /\ terminal_state.previous.pips = cur.pips
                 /\ terminal_state.previous.stacks = cur.stacks
                 /\ terminal_state.previous.deck = cur.deck
                 /\ terminal_state.previous.previous = cur.previous )
    /\ [][ (last.outcome = "ok" /\ last.tok.tag = "O" /\ last'.tok.tag = "D") =>
             /\ last'.call.cb = "round_over"
             /\ last'.call.arg.previous.hands[1 - player_index]
                   = CardHand(last.tok.cards)
             /\ last'.call.arg.previous.hands[player_index]
                   = round_state.hands[player_index] ]_vars

\* a round closed by a Delta after a Reveal for seat 1: round_over received
\* the opponent's hand at seat 0 and the client's at seat 1
C35_Witness ==
    /\ r_phase = "closed"
    /\ last.tok.tag = "D"
    /\ last.pre_index = 1
    /\ last.call.cb = "round_over"
    /\ last.call.arg.previous.hands[0] = CardHand(<<3, 4>>)
    /\ last.call.arg.previous.hands[1] = CardHand(<<1, 2>>)

\* C39: for a round that ends at showdown (last action a Call or Check at
\* street 5, followed by Reveal and Delta), the TerminalState passed to
\* round_over has previous equal to the round state after that last action:
\* its pips, stacks and button are those the last action left
C39_ShowdownPrevious ==
    ( /\ last.outcome = "ok" /\ last.tok.tag = "D"
      /\ last.pre_round # None
      /\ last.pre_round.street = 5
      /\ last.pre_terminal.deltas = Pair(0, 0)
      /\ last.pre_terminal.previous.hands[1 - last.pre_index] # None )
    => LET before == last.pre_round
           closing == IF continue_cost(before) > 0 THEN Call ELSE Check
           after == proceed(before, closing).previous
           passed == last.call.arg.previous
       IN  /\ proceed(before, closing).tag = "Terminal"
           /\ passed.pips = after.pips
           /\ passed.stacks = after.stacks
           /\ passed.button = after.button

\* C38: in every round state reached from the StartRound state by actions
\* legal where applied (raise amounts inside raise_bounds),
\* pips[active] <= pips[1-active] and
\* pips[1-active] - pips[active] <= stacks[active], and none of the unsigned
\* subtractions of legal_actions, raise_bounds and proceed of a legal action
\* leaves its range
C38_NoUnderflow ==
    round_state # None =>
        LET a == round_state.button % 2
        IN  /\ round_state.pips[a] <= round_state.pips[1 - a]
            /\ round_state.pips[1 - a] - round_state.pips[a]
                  <= round_state.stacks[a]
            /\ round_state.stacks[0] >= 0 /\ round_state.stacks[1] >= 0
            /\ \A tok \in LegalToks(round_state, 0) :
                  SubtractionsInRange(round_state, action_of(tok))

\* the tight case: the active seat faces a bet that is exactly its stack
C38_Witness ==
    /\ round_state # None
    /\ r_phase = "live"
    /\ round_state.button > 1
    /\ continue_cost(round_state) > 0
    /\ continue_cost(round_state) = round_state.stacks[active_of(round_state)]

\* C36: once a job has panicked inside a worker (its liveness flag is
\* false), the next call to ThreadPool::execute panics instead of enqueuing
\* the job, and no further receive, dispatch or respond job is started by
\* any worker
C36_DownedWorker ==
    [][ (\E v \in Workers : Down(v)) =>
          /\ (m_pc \in {"exec_recv", "exec_dispatch", "exec_respond"}
                /\ m_pc' # m_pc) => (m_exit' = "panic" /\ jobs' = jobs)
          /\ \A w \in Workers :
                w_pc[w] = "idle" => w_pc'[w] \in {"idle", "exited"} ]_vars

\* ------------------------------------------------------------------------
\* SpecPool: thread_pool.rs alone.  The owner of a pool of 1..MaxWorkers
\* workers submits numbered jobs that all return, shuts the pool down and
\* drops it.  The harness logs in applied every message a worker dequeues
\* (<<number, worker>>, number 0 for a Terminate) and in outbound every job
\* that has returned; m_upto counts the jobs submitted.
\* ------------------------------------------------------------------------
PoolInit ==
    /\ CellsInit
    /\ last = NoLast
    /\ r_phase = "idle"
    /\ r_raises = 0
    /\ pure = NoPure
    /\ pool_size \in 1..MaxWorkers
    /\ script = 1
    /\ m_pc = "pool"
    /\ RunnerStart

\* pool.execute(_, f) with a job that returns
PExecute ==
    /\ m_pc = "pool"
    /\ m_upto <= MaxJobs
    /\ Execute(Job("job", m_upto + 1), "pool")
    /\ m_upto' = m_upto + 1
    /\ UNCHANGED <<cells, last, harness, pool_size, script, eng_sent, inbound,
                   outbound, read_queue, round_sent, bot_lock, chan, m_clauses,
                   state_change, w_pc, w_job, applied, nonempty_read,
                   bot_failed, resp>>

\* shutdown(): one Terminate per worker is sent, then the workers are joined
PShutdown ==
    /\ m_pc = "pool"
    /\ jobs' = jobs \o Terminates
    /\ m_pc' = "join"
    /\ UNCHANGED <<cells, last, harness, pool_size, script, eng_sent, inbound,
                   outbound, read_queue, round_sent, socket, bot_lock, round_lock,
                   game_lock, chan, m_clauses, state_change, m_upto, m_exit,
                   w_pc, w_job, applied, nonempty_read, bot_failed, resp>>

\* Drop -> shutdown() after shutdown() has returned: the sends fail once
\* every worker has dropped the receiver, and no thread handle is left to
\* join
PShutdownAgain ==
    /\ m_pc = "done"
    /\ jobs' = IF \A w \in Workers : Gone(w) THEN jobs ELSE jobs \o Terminates
    /\ m_pc' = "dropped"
    /\ UNCHANGED <<cells, last, harness, pool_size, script, eng_sent, inbound,
                   outbound, read_queue, round_sent, socket, bot_lock, round_lock,
                   game_lock, chan, m_clauses, state_change, m_upto, m_exit,
                   w_pc, w_job, applied, nonempty_read, bot_failed, resp>>

\* a worker that dequeues the oldest message without removing it
PTake_peek(w) ==
    /\ w_pc[w] = "idle"
    /\ jobs # <<>>
    /\ Len(applied) <= 2 * MaxJobs + MaxWorkers
    /\ jobs' = IF Head(jobs).kind = "term" THEN Tail(jobs) ELSE jobs
    /\ w_job' = [w_job EXCEPT ![w] = Head(jobs)]
    /\ w_pc' = [w_pc EXCEPT ![w] =
                   IF Head(jobs).kind = "term" THEN "exited" ELSE "running"]
    /\ applied' = Append(applied, <<Head(jobs).upto, w>>)
    /\ UNCHANGED <<cells, last, harness, pool_size, script, eng_sent, inbound,
                   outbound, read_queue, round_sent, socket, bot_lock, round_lock,
                   game_lock, chan, m_pc, m_clauses, state_change, m_upto, m_exit,
                   nonempty_read, bot_failed, resp>>

\* the job loop: receiver.lock().unwrap().recv().unwrap() takes the oldest
\* message; a NewJob is called, a Terminate breaks the loop
PTake(w) ==
    /\ w_pc[w] = "idle"
    /\ jobs # <<>>
    /\ jobs' = Tail(jobs)
    /\ w_job' = [w_job EXCEPT ![w] = Head(jobs)]
    /\ w_pc' = [w_pc EXCEPT ![w] =
                   IF Head(jobs).kind = "term" THEN "exited" ELSE "running"]
    /\ applied' = Append(applied, <<Head(jobs).upto, w>>)
    /\ UNCHANGED <<cells, last, harness, pool_size, script, eng_sent, inbound,
                   outbound, read_queue, round_sent, socket, bot_lock, round_lock,
                   game_lock, chan, m_pc, m_clauses, state_change, m_upto, m_exit,
                   nonempty_read, bot_failed, resp>>

\* job.call_box() returns and the worker loops
PReturn(w) ==
    /\ w_pc[w] = "running"
    /\ outbound' = Append(outbound, <<w_job[w].upto, w>>)
    /\ WorkerReturn(w)
    /\ UNCHANGED <<cells, last, harness, pool_size, script, eng_sent, inbound,
                   read_queue, round_sent, chan, jobs, m_pc, m_clauses,
                   state_change, m_upto, m_exit, applied, nonempty_read,
                   bot_failed, resp>>

PoolNext ==
    \/ PExecute
    \/ PShutdown
    \/ MJoin
    \/ PShutdownAgain
    \/ \E w \in Workers : PTake(w)
    \/ \E w \in Workers : PReturn(w)

SpecPool == PoolInit /\ [][PoolNext]_vars

\* the numbers of the jobs in a log, in the order logged
RECURSIVE job_numbers(_)
job_numbers(log) ==
    IF log = <<>> THEN <<>>
    ELSE IF Head(log)[1] = 0 THEN job_numbers(Tail(log))
         ELSE <<Head(log)[1]>> \o job_numbers(Tail(log))

\* C40: in a pool of N workers where every job returns, each job submitted
\* through execute is run exactly once by exactly one worker, jobs are
\* dequeued in submission order, and shutdown returns after every job
\* submitted before it has run and each of the N workers has consumed
\* exactly one Terminate; a second shutdown (from Drop) changes nothing
C40_Pool ==
    /\ [](/\ \E n \in 0..m_upto :
                job_numbers(applied) = [k \in 1..n |-> k]
          /\ \A i, j \in 1..Len(outbound) :
                outbound[i][1] = outbound[j][1] => i = j
          /\ \A i \in 1..Len(outbound) :
                \E j \in 1..Len(applied) : applied[j] = outbound[i])
    /\ [](m_pc \in {"done", "dropped"} =>
             /\ job_numbers(applied) = [k \in 1..m_upto |-> k]
             /\ job_numbers(outbound) \in
                   { s \in [1..m_upto -> 1..m_upto] :
                       \A k \in 1..m_upto : \E i \in 1..m_upto : s[i] = k }
             /\ \A w \in Workers :
                   Cardinality({ i \in 1..Len(applied) : applied[i] = <<0, w>> }) = 1
             /\ jobs = <<>>)
    /\ [][m_pc = "done" =>
             /\ jobs' = jobs /\ applied' = applied /\ outbound' = outbound
             /\ w_pc' = w_pc /\ w_job' = w_job]_vars

\* a pool of two workers shut down and dropped after three jobs, of which
\* each worker ran at least one
C40_Witness ==
    /\ m_pc = "dropped"
    /\ pool_size = 2
    /\ m_upto = 3
    /\ \E i, j \in 1..Len(outbound) : outbound[i][2] = 1 /\ outbound[j][2] = 2
    /\ outbound[1][1] = 2

\* C37: for an engine whose every line leaves either the client's seat to
\* act or the round finished by a D token, whenever a respond job observes
\* round = Some the client's seat is button mod 2 (its assertion holds), and
\* get_action is never being called for a state in which the client is not
\* the active seat
C37_RespondAssertion ==
    \A w \in Workers :
        (w_pc[w] \in {"resp_act", "resp_asking"} /\ round_state # None)
            => player_index = round_state.button % 2

====
